---- MODULE Spec2Model ----
(***************************************************************************)
(* A model of vocdoni/circom2gnark: the codec between the Circom/SnarkJS   *)
(* JSON encoding of Groth16 proofs and the gnark representation (package   *)
(* parser), the batch verifier circuit, the artifact cache and the         *)
(* aggregation pipeline of example_native_aggregation, and the single      *)
(* proof example program.                                                  *)
(*                                                                         *)
(* Strings are sequences of one-character strings, byte slices are         *)
(* sequences of 0..255.  The curve is y^2 = x^3 + 3 as in bn254, over a    *)
(* small prime field so that every point can be enumerated; coordinates    *)
(* are FieldBytes bytes wide where bn254's are 32.                         *)
(***************************************************************************)
EXTENDS Integers, Sequences, FiniteSets, TLC

VARIABLES
    cTask,      \* codec: the call under study, [op |-> name, arg |-> argument]
    cStep,      \* codec: "start" | "mid" | "done"
    cMid,       \* codec: the value between the two halves of a round trip
    cOut        \* codec: the value returned by the last call

codecVars == <<cTask, cStep, cMid, cOut>>
\* The aggregation pipeline (example_native_aggregation): the -test flag, the
\* working directory, the three stages' position and what they hold.
VARIABLES pRuntest, pInputOk, pAccess, pFiles, pStage, pPc, pI, pProofs, pVk,
          pCcs, pCur, pLoad, pAggIn, pAgg, pEnd
\* Runs of the pipeline one after the other in one working directory: the
\* number of the run, the calls to groth16.Setup so far, which Setup and
\* which circuit shape each file on disk comes from, the shape of the Circom
\* data of this run, and the calls the current stage invocation has made.
VARIABLES pRun, pSetups, pOrigin, pShape, pCalls
pipelineVars == <<pRuntest, pInputOk, pAccess, pFiles, pStage, pPc, pI, pProofs,
                  pVk, pCcs, pCur, pLoad, pAggIn, pAgg, pEnd,
                  pRun, pSetups, pOrigin, pShape, pCalls>>
\* The single-proof example program (example/main.go)
VARIABLES eRuntest, eInputOk, eAccess, eFiles, ePc, eProof, eOut, eEnd
\* Runs of the example one after the other in one working directory: the
\* number of the run, the calls to groth16.Setup so far, and the Setup each
\* file on disk comes from (0: from before the first run).
VARIABLES eRun, eSetups, eOrigin
exampleVars == <<eRuntest, eInputOk, eAccess, eFiles, ePc, eProof, eOut, eEnd,
                 eRun, eSetups, eOrigin>>
\* The batch verifier circuit: its assignment, the assertions Define has
\* emitted, the solver's verdict.
VARIABLES aProofs, aAsserted, aPc, aSolved
circuitVars == <<aProofs, aAsserted, aPc, aSolved>>
\* Two processes sharing one working directory: one in CompileCircuit, one
\* in LoadCircuit, for the same circuit kind.
VARIABLES kFiles, kWriter, kReader, kSeen
cacheVars == <<kFiles, kWriter, kReader, kSeen>>
\* One call of AggregateProofs: its argument, its position, the loop index
\* of createAggregationCircuitData and what has been built.
VARIABLES gProofs, gPc, gI, gBuilt
aggVars == <<gProofs, gPc, gI, gBuilt>>
vars == <<codecVars, pipelineVars, exampleVars, circuitVars, cacheVars, aggVars>>
notCodec == <<pipelineVars, exampleVars, circuitVars, cacheVars, aggVars>>
notPipeline == <<codecVars, exampleVars, circuitVars, cacheVars, aggVars>>
notExample == <<codecVars, pipelineVars, circuitVars, cacheVars, aggVars>>
notCircuit == <<codecVars, pipelineVars, exampleVars, cacheVars, aggVars>>
notCache == <<codecVars, pipelineVars, exampleVars, circuitVars, aggVars>>
notAgg == <<codecVars, pipelineVars, exampleVars, circuitVars, cacheVars>>

\* A nil pointer: a record, so that it compares unequal to every point.
Nil == [nil |-> TRUE]

(***************************************************************************)
(* Sizes                                                                   *)
(***************************************************************************)
\* fp.Bytes: the width of one coordinate in bytes (32 for bn254), scaled.
FieldBytes == 1
\* The base field modulus of the curve (bn254's fp.Modulus), scaled.
FpModulus == 7
\* The scalar field modulus (bn254's fr.Modulus): the order of the curve
\* y^2 = x^3 + 3 over the field of FpModulus elements, a prime as in bn254.
FrModulus == 13
\* The constant of the curve equation, bCurveCoeff of bn254.
bCurveCoeff == 3

Fp == 0 .. (FpModulus - 1)

RECURSIVE Pow(_, _)
Pow(b, e) == IF e = 0 THEN 1 ELSE b * Pow(b, e - 1)

(***************************************************************************)
(* Characters, decimal and hexadecimal text, math/big                      *)
(***************************************************************************)
Digits == <<"0", "1", "2", "3", "4", "5", "6", "7", "8", "9">>

HexLower == Digits \o <<"a", "b", "c", "d", "e", "f">>

HexUpper == Digits \o <<"A", "B", "C", "D", "E", "F">>

IsDigit(c) == \E i \in 1..10 : Digits[i] = c

DigitVal(c) == (CHOOSE i \in 1..10 : Digits[i] = c) - 1

IsHexDigit(c) == \E i \in 1..16 : HexLower[i] = c \/ HexUpper[i] = c

HexVal(c) == (CHOOSE i \in 1..16 : HexLower[i] = c \/ HexUpper[i] = c) - 1

RECURSIVE DecValue(_)
DecValue(ds) ==
    IF ds = <<>> THEN 0
    ELSE DecValue(SubSeq(ds, 1, Len(ds) - 1)) * 10 + DigitVal(ds[Len(ds)])

RECURSIVE HexValue(_)
HexValue(ds) ==
    IF ds = <<>> THEN 0
    ELSE HexValue(SubSeq(ds, 1, Len(ds) - 1)) * 16 + HexVal(ds[Len(ds)])

\* new(big.Int).SetString(s, 10): an optional sign and then one or more
\* decimal digits; nothing else is accepted.  The value is sign and magnitude.
SetString10(s) ==
    LET signed == Len(s) > 0 /\ s[1] \in {"+", "-"}
        ds == IF signed THEN Tail(s) ELSE s
    IN  IF Len(ds) = 0 \/ \E i \in 1..Len(ds) : ~IsDigit(ds[i])
        THEN [ok |-> FALSE, neg |-> FALSE, abs |-> 0]
        ELSE [ok |-> TRUE,
              neg |-> signed /\ s[1] = "-" /\ DecValue(ds) # 0,
              abs |-> DecValue(ds)]

\* new(big.Int).SetString(s, 16)
SetString16(s) ==
    LET signed == Len(s) > 0 /\ s[1] \in {"+", "-"}
        ds == IF signed THEN Tail(s) ELSE s
    IN  IF Len(ds) = 0 \/ \E i \in 1..Len(ds) : ~IsHexDigit(ds[i])
        THEN [ok |-> FALSE, neg |-> FALSE, abs |-> 0]
        ELSE [ok |-> TRUE,
              neg |-> signed /\ s[1] = "-" /\ HexValue(ds) # 0,
              abs |-> HexValue(ds)]

\* (*big.Int).Bytes(): the big-endian bytes of the absolute value, none for 0.
RECURSIVE BigIntBytes(_)
BigIntBytes(n) ==
    IF n = 0 THEN <<>> ELSE Append(BigIntBytes(n \div 256), n % 256)

\* (*big.Int).String() of a non-negative value: decimal, no leading zeros.
RECURSIVE BigIntString(_)
BigIntString(n) ==
    IF n < 10 THEN <<Digits[n + 1]>>
    ELSE Append(BigIntString(n \div 10), Digits[(n % 10) + 1])

\* The value of a big-endian byte slice.
RECURSIVE BytesValue(_)
BytesValue(b) ==
    IF b = <<>> THEN 0
    ELSE BytesValue(SubSeq(b, 1, Len(b) - 1)) * 256 + b[Len(b)]

Zeros(n) == [i \in 1..n |-> 0]

\* strings.TrimPrefix(s, "0x")
TrimPrefix0x(s) ==
    IF Len(s) >= 2 /\ SubSeq(s, 1, 2) = <<"0", "x">>
    THEN SubSeq(s, 3, Len(s)) ELSE s

\* hex.DecodeString: an odd length or a character that is no hex digit is an
\* error; otherwise one byte per two characters.
HexDecodeString(s) ==
    IF Len(s) % 2 = 1 \/ \E i \in 1..Len(s) : ~IsHexDigit(s[i])
    THEN [ok |-> FALSE, b |-> <<>>]
    ELSE [ok |-> TRUE,
          b |-> [i \in 1..(Len(s) \div 2) |->
                    HexVal(s[2 * i - 1]) * 16 + HexVal(s[2 * i])]]

(***************************************************************************)
(* The curve: fp elements, the quadratic extension E2 = fp[u]/(u^2 + 1),   *)
(* G1 over fp and G2 over E2 (gnark-crypto's ecc/bn254, reached through    *)
(* Unmarshal and through the X, Y, A0, A1 fields of the points)            *)
(***************************************************************************)
FpAdd(a, b) == (a + b) % FpModulus

FpMul(a, b) == (a * b) % FpModulus

FpNeg(a) == (FpModulus - a) % FpModulus

\* fp.Element.LexicographicallyLargest: a > (modulus - 1) / 2
FpLexLargest(a) == a > (FpModulus - 1) \div 2

E2 == [A0 : Fp, A1 : Fp]

E2Zero == [A0 |-> 0, A1 |-> 0]

E2Add(a, b) == [A0 |-> FpAdd(a.A0, b.A0), A1 |-> FpAdd(a.A1, b.A1)]

E2Neg(a) == [A0 |-> FpNeg(a.A0), A1 |-> FpNeg(a.A1)]

E2Mul(a, b) ==
    [A0 |-> FpAdd(FpMul(a.A0, b.A0), FpNeg(FpMul(a.A1, b.A1))),
     A1 |-> FpAdd(FpMul(a.A0, b.A1), FpMul(a.A1, b.A0))]

\* E2.LexicographicallyLargest: by A1 unless A1 is zero, then by A0
E2LexLargest(a) ==
    IF a.A1 = 0 THEN FpLexLargest(a.A0) ELSE FpLexLargest(a.A1)

\* The constant of the twist, bTwistCurveCoeff = bCurveCoeff / (9 + u).
bTwistCurveCoeff ==
    CHOOSE c \in E2 :
        E2Mul(c, [A0 |-> 9 % FpModulus, A1 |-> 1]) = [A0 |-> bCurveCoeff % FpModulus, A1 |-> 0]

G1Infinity == [X |-> 0, Y |-> 0]

G2Infinity == [X |-> E2Zero, Y |-> E2Zero]

\* G1Affine.IsOnCurve; the point at infinity, stored as (0, 0), is on it.
G1IsOnCurve(p) ==
    \/ p = G1Infinity
    \/ FpMul(p.Y, p.Y) = FpAdd(FpMul(p.X, FpMul(p.X, p.X)), bCurveCoeff % FpModulus)

\* G2Affine.IsOnCurve
G2IsOnCurve(q) ==
    \/ q = G2Infinity
    \/ E2Mul(q.Y, q.Y) = E2Add(E2Mul(q.X, E2Mul(q.X, q.X)), bTwistCurveCoeff)

G1Curve == {p \in [X : Fp, Y : Fp] : G1IsOnCurve(p)}

G2Curve == {q \in [X : E2, Y : E2] : G2IsOnCurve(q)}

E2One == [A0 |-> 1, A1 |-> 0]

E2Inv(a) == CHOOSE b \in E2 : E2Mul(a, b) = E2One

E2Sub(a, b) == E2Add(a, E2Neg(b))

\* Affine addition on the twist (the curve has a = 0).
G2Add(p, q) ==
    IF p = G2Infinity THEN q
    ELSE IF q = G2Infinity THEN p
    ELSE IF p.X = q.X /\ (p.Y # q.Y \/ p.Y = E2Zero) THEN G2Infinity
    ELSE LET three == [A0 |-> 3 % FpModulus, A1 |-> 0]
             two == [A0 |-> 2 % FpModulus, A1 |-> 0]
             l == IF p.X = q.X
                  THEN E2Mul(E2Mul(three, E2Mul(p.X, p.X)), E2Inv(E2Mul(two, p.Y)))
                  ELSE E2Mul(E2Sub(q.Y, p.Y), E2Inv(E2Sub(q.X, p.X)))
             x3 == E2Sub(E2Sub(E2Mul(l, l), p.X), q.X)
         IN  [X |-> x3, Y |-> E2Sub(E2Mul(l, E2Sub(p.X, x3)), p.Y)]

RECURSIVE G2ScalarMul(_, _)
G2ScalarMul(k, q) == IF k = 0 THEN G2Infinity ELSE G2Add(q, G2ScalarMul(k - 1, q))

\* G1Affine.IsInSubGroup: G1 has cofactor one, the whole curve is the group.
G1IsInSubGroup(p) == G1IsOnCurve(p)

\* G2Affine.IsInSubGroup: on the twist and of order dividing the group order.
G2IsInSubGroup(q) == G2IsOnCurve(q) /\ G2ScalarMul(FrModulus, q) = G2Infinity

\* The points a gnark bn254 proof or verifying key can hold.
G1Points == {p \in G1Curve : G1IsInSubGroup(p)}

G2Points == {q \in G2Curve : G2IsInSubGroup(q)}

\* fp.Element.SetBytesCanonical: the big-endian value, an error unless it is
\* below the modulus.
SetBytesCanonical(b) ==
    IF BytesValue(b) >= FpModulus THEN [err |-> TRUE, v |-> 0]
    ELSE [err |-> FALSE, v |-> BytesValue(b)]

\* The two most significant bits of the first byte say how a point is encoded.
mMask == 192
mUncompressed == 0
mCompressedInfinity == 64
mCompressedSmallest == 128
mCompressedLargest == 192

MaskOf(byte) == (byte \div 64) * 64

ClearMask(b) == [b EXCEPT ![1] = b[1] % 64]

\* (*G1Affine).Unmarshal(buf) = SetBytes(buf), with the subgroup check.  The
\* result is the error and the point left in the receiver.
G1Unmarshal(buf) ==
    IF Len(buf) < FieldBytes THEN [err |-> TRUE, p |-> G1Infinity]
    ELSE LET mData == MaskOf(buf[1]) IN
    IF mData = mUncompressed /\ Len(buf) < 2 * FieldBytes
    THEN [err |-> TRUE, p |-> G1Infinity]
    ELSE IF mData = mCompressedInfinity
    THEN [err |-> BytesValue(ClearMask(SubSeq(buf, 1, FieldBytes))) # 0, p |-> G1Infinity]
    ELSE IF mData = mUncompressed
    THEN LET x == SetBytesCanonical(SubSeq(buf, 1, FieldBytes))
             y == SetBytesCanonical(SubSeq(buf, FieldBytes + 1, 2 * FieldBytes))
             p == [X |-> x.v, Y |-> y.v]
         IN  IF x.err THEN [err |-> TRUE, p |-> G1Infinity]
             ELSE IF y.err THEN [err |-> TRUE, p |-> p]
             ELSE [err |-> ~G1IsInSubGroup(p), p |-> p]
    ELSE LET x == SetBytesCanonical(ClearMask(SubSeq(buf, 1, FieldBytes)))
             rhs == FpAdd(FpMul(x.v, FpMul(x.v, x.v)), bCurveCoeff % FpModulus)
             roots == {y \in Fp : FpMul(y, y) = rhs}
             y == CHOOSE r \in roots :
                      \/ Cardinality(roots) = 1
                      \/ FpLexLargest(r) <=> (mData = mCompressedLargest)
             p == [X |-> x.v, Y |-> y]
         IN  IF x.err THEN [err |-> TRUE, p |-> G1Infinity]
             ELSE IF roots = {} THEN [err |-> TRUE, p |-> [X |-> x.v, Y |-> 0]]
             ELSE [err |-> ~G1IsInSubGroup(p), p |-> p]

\* (*G2Affine).Unmarshal(buf): the coordinates are laid out X.A1 | X.A0 | Y.A1 | Y.A0.
G2Unmarshal(buf) ==
    IF Len(buf) < 2 * FieldBytes THEN [err |-> TRUE, p |-> G2Infinity]
    ELSE LET mData == MaskOf(buf[1]) IN
    IF mData = mUncompressed /\ Len(buf) < 4 * FieldBytes
    THEN [err |-> TRUE, p |-> G2Infinity]
    ELSE IF mData = mCompressedInfinity
    THEN [err |-> BytesValue(ClearMask(SubSeq(buf, 1, 2 * FieldBytes))) # 0, p |-> G2Infinity]
    ELSE LET xa1 == SetBytesCanonical(ClearMask(SubSeq(buf, 1, FieldBytes)))
             xa0 == SetBytesCanonical(SubSeq(buf, FieldBytes + 1, 2 * FieldBytes))
             x == [A0 |-> xa0.v, A1 |-> xa1.v]
         IN
    IF xa1.err \/ xa0.err THEN [err |-> TRUE, p |-> G2Infinity]
    ELSE IF mData = mUncompressed
    THEN LET ya1 == SetBytesCanonical(SubSeq(buf, 2 * FieldBytes + 1, 3 * FieldBytes))
             ya0 == SetBytesCanonical(SubSeq(buf, 3 * FieldBytes + 1, 4 * FieldBytes))
             p == [X |-> x, Y |-> [A0 |-> ya0.v, A1 |-> ya1.v]]
         IN  IF ya1.err \/ ya0.err THEN [err |-> TRUE, p |-> [X |-> x, Y |-> E2Zero]]
             ELSE [err |-> ~G2IsInSubGroup(p), p |-> p]
    ELSE LET rhs == E2Add(E2Mul(x, E2Mul(x, x)), bTwistCurveCoeff)
             roots == {y \in E2 : E2Mul(y, y) = rhs}
             y == CHOOSE r \in roots :
                      \/ Cardinality(roots) = 1
                      \/ E2LexLargest(r) <=> (mData = mCompressedLargest)
             p == [X |-> x, Y |-> y]
         IN  IF roots = {} THEN [err |-> TRUE, p |-> [X |-> x, Y |-> E2Zero]]
             ELSE [err |-> ~G2IsInSubGroup(p), p |-> p]

(***************************************************************************)
(* package parser: decoding (parser.go, util.go)                           *)
(*                                                                         *)
(* A call returns a record whose status is "ok", "error" (a Go error was   *)
(* returned) or "panic" (a run-time panic: an index or a slice bound out   *)
(* of range, a failed type assertion).                                     *)
(***************************************************************************)
\* addZPadding(b): z[len(b):] of a FieldBytes-wide array panics when b is
\* longer than the array.
addZPadding(b) ==
    IF Len(b) > FieldBytes THEN [status |-> "panic", b |-> <<>>]
    ELSE [status |-> "ok", b |-> Zeros(FieldBytes - Len(b)) \o b]

\* The padding step shared by stringToG1 and stringToBytes:
\* if len(b) != 32 { b = addZPadding(b) }
PadToWidth(b) ==
    IF Len(b) # FieldBytes THEN addZPadding(b) ELSE [status |-> "ok", b |-> b]

\* stringToBytes(s)
stringToBytes(s) ==
    LET s1 == IF s = <<"1">> THEN <<"0">> ELSE s
        bi == SetString10(s1)
    IN  IF ~bi.ok THEN [status |-> "error", b |-> <<>>]
        ELSE PadToWidth(BigIntBytes(bi.abs))

\* stringToBigInt(s)
stringToBigInt(s) ==
    IF Len(s) >= 2 /\ SubSeq(s, 1, 2) = <<"0", "x">>
    THEN SetString16(SubSeq(s, 3, Len(s)))
    ELSE SetString10(s)

\* stringToG1(h).  h is a slice: the two assignments h[0] = "0" and
\* h[1] = "0" write through to the caller's array, so the result carries
\* the array as the caller sees it afterwards.
stringToG1(h) ==
    IF Len(h) <= 2 THEN [status |-> "error", p |-> Nil, h |-> h]
    ELSE
    LET hexa == Len(h[1]) > 1 /\ SubSeq(h[1], 1, 2) = <<"0", "x">> IN
    IF hexa
    THEN LET d == HexDecodeString(TrimPrefix0x(h[1]) \o TrimPrefix0x(h[2]))
             u == G1Unmarshal(d.b)
         IN  IF ~d.ok THEN [status |-> "error", p |-> Nil, h |-> h]
             ELSE [status |-> IF u.err THEN "error" ELSE "ok", p |-> u.p, h |-> h]
    ELSE LET h0 == IF h[1] = <<"1">> THEN <<"0">> ELSE h[1]
             h1 == IF h[2] = <<"1">> THEN <<"0">> ELSE h[2]
             after == [h EXCEPT ![1] = h0, ![2] = h1]
             bi0 == SetString10(h0)
             bi1 == SetString10(h1)
             b0 == PadToWidth(BigIntBytes(bi0.abs))
             b1 == PadToWidth(BigIntBytes(bi1.abs))
             u == G1Unmarshal(b0.b \o b1.b)
         IN  IF ~bi0.ok \/ ~bi1.ok THEN [status |-> "error", p |-> Nil, h |-> after]
             ELSE IF b0.status = "panic" \/ b1.status = "panic"
             THEN [status |-> "panic", p |-> Nil, h |-> after]
             ELSE [status |-> IF u.err THEN "error" ELSE "ok", p |-> u.p, h |-> after]

\* The order in which the decimal branch of stringToG2 reads the four
\* coordinates: h[0][1], h[0][0], h[1][1], h[1][0] (here counted from 1).
G2DecimalOrderSecondFirst == << <<2, 2>>, <<2, 1>>, <<1, 2>>, <<1, 1>> >>
G2DecimalOrder == << <<1, 2>>, <<1, 1>>, <<2, 2>>, <<2, 1>> >>

\* The decimal branch of stringToG2 from its k-th coordinate on, with the
\* bytes appended so far.
RECURSIVE G2DecimalBytes(_, _, _)
G2DecimalBytes(h, k, acc) ==
    IF k > Len(G2DecimalOrder) THEN [status |-> "ok", b |-> acc]
    ELSE LET i == G2DecimalOrder[k][1]
             j == G2DecimalOrder[k][2]
         IN  IF Len(h[i]) < j THEN [status |-> "panic", b |-> acc]
             ELSE LET bH == stringToBytes(h[i][j]) IN
                  IF bH.status # "ok" THEN [status |-> bH.status, b |-> acc]
                  ELSE G2DecimalBytes(h, k + 1, acc \o bH.b)

\* The hex branch of stringToG2: every string of h[0] and h[1], in order.
RECURSIVE ConcatTrimmed(_)
ConcatTrimmed(strs) ==
    IF strs = <<>> THEN <<>>
    ELSE TrimPrefix0x(Head(strs)) \o ConcatTrimmed(Tail(strs))

\* stringToG2(h)
stringToG2(h) ==
    IF Len(h) <= 2 THEN [status |-> "error", p |-> Nil]
    ELSE IF Len(h[1]) = 0 THEN [status |-> "panic", p |-> Nil]
    ELSE
    LET hexa == Len(h[1][1]) > 1 /\ SubSeq(h[1][1], 1, 2) = <<"0", "x">> IN
    IF hexa
    THEN LET d == HexDecodeString(ConcatTrimmed(h[1] \o h[2]))
             u == G2Unmarshal(d.b)
         IN  IF ~d.ok THEN [status |-> "error", p |-> Nil]
             ELSE [status |-> IF u.err THEN "error" ELSE "ok", p |-> u.p]
    ELSE LET d == G2DecimalBytes(h, 1, <<>>)
             u == G2Unmarshal(d.b)
         IN  IF d.status # "ok" THEN [status |-> d.status, p |-> Nil]
             ELSE [status |-> IF u.err THEN "error" ELSE "ok", p |-> u.p]

(***************************************************************************)
(* package parser: encoding (ConvertGnarkToCircom and its helpers)         *)
(***************************************************************************)
\* g1ToCircomString(p): [X, Y, "1"] in decimal
g1ToCircomString(p) ==
    IF p = Nil THEN [status |-> "error", s |-> <<>>]
    ELSE [status |-> "ok", s |-> <<BigIntString(p.X), BigIntString(p.Y), <<"1">>>>]

\* g2ToCircomString(p): [[X.A0, X.A1], [Y.A0, Y.A1], ["1", "0"]] in decimal
g2ToCircomString(p) ==
    IF p = Nil THEN [status |-> "error", s |-> <<>>]
    ELSE [status |-> "ok",
          s |-> << <<BigIntString(p.X.A0), BigIntString(p.X.A1)>>,
                   <<BigIntString(p.Y.A0), BigIntString(p.Y.A1)>>,
                   << <<"1">>, <<"0">> >> >>]

\* elementToString(e)
elementToString(e) == BigIntString(e)

\* ParsePublicInputs(publicSignals): each string through stringToBigInt,
\* then fr.Element.SetBigInt, which reduces modulo the scalar field.
RECURSIVE ParsePublicInputsFrom(_, _)
ParsePublicInputsFrom(publicSignals, acc) ==
    IF publicSignals = <<>> THEN [status |-> "ok", v |-> acc]
    ELSE LET bi == stringToBigInt(Head(publicSignals))
             e == IF bi.neg THEN (FrModulus - (bi.abs % FrModulus)) % FrModulus
                  ELSE bi.abs % FrModulus
         IN  IF ~bi.ok THEN [status |-> "error", v |-> <<>>]
             ELSE ParsePublicInputsFrom(Tail(publicSignals), Append(acc, e))

ParsePublicInputs(publicSignals) == ParsePublicInputsFrom(publicSignals, <<>>)

\* The gnark proof ConvertProof builds: no commitments, a zero proof of knowledge.
GnarkProofOf(ar, krs, bs) ==
    [curve |-> "bn254", Ar |-> ar, Krs |-> krs, Bs |-> bs,
     Commitments |-> <<>>, CommitmentPok |-> G1Infinity]

\* The result of ConvertProof given what the three decoders returned: the
\* first failure in the order PiA, PiC, PiB, else the gnark proof.  snark is
\* the caller's proof as the decoders left it.
ConvertProofResult(snarkProof, arG1, krsG1, bsG2) ==
    IF arG1.status # "ok"
    THEN [status |-> arG1.status, proof |-> Nil,
          snark |-> [snarkProof EXCEPT !.PiA = arG1.h]]
    ELSE IF krsG1.status # "ok"
    THEN [status |-> krsG1.status, proof |-> Nil,
          snark |-> [snarkProof EXCEPT !.PiA = arG1.h, !.PiC = krsG1.h]]
    ELSE [status |-> bsG2.status,
          proof |-> IF bsG2.status = "ok" THEN GnarkProofOf(arG1.p, krsG1.p, bsG2.p) ELSE Nil,
          snark |-> [snarkProof EXCEPT !.PiA = arG1.h, !.PiC = krsG1.h]]

\* ConvertProof(snarkProof): stringToG1(PiA), stringToG1(PiC), stringToG2(PiB)
ConvertProof(snarkProof) ==
    ConvertProofResult(snarkProof, stringToG1(snarkProof.PiA),
                       stringToG1(snarkProof.PiC), stringToG2(snarkProof.PiB))

\* One turn of the loop of ConvertVerificationKey over snarkVk.IC.
ConvertICEntry(acc, icG1) ==
    [status |-> icG1.status,
     K |-> IF icG1.status = "ok" THEN Append(acc.K, icG1.p) ELSE acc.K,
     ic |-> Append(acc.ic, icG1.h)]

\* The loop of ConvertVerificationKey over snarkVk.IC, from its entry i on:
\* it stops at the first entry that fails and leaves the later ones alone.
RECURSIVE ConvertIC(_, _, _)
ConvertIC(ic, i, acc) ==
    IF i > Len(ic) THEN acc
    ELSE IF acc.status # "ok"
    THEN [acc EXCEPT !.ic = acc.ic \o SubSeq(ic, i, Len(ic))]
    ELSE ConvertIC(ic, i + 1, ConvertICEntry(acc, stringToG1(ic[i])))

\* The result of ConvertVerificationKey given what the decoders returned:
\* the first failure in the order alpha, beta, gamma, delta, IC.
\* vk.Precompute() computes e(alpha, beta) and does not fail on decoded points.
ConvertVerificationKeyResult(snarkVk, alphaG1, betaG2, gammaG2, deltaG2, ic) ==
    IF alphaG1.status # "ok"
    THEN [status |-> alphaG1.status, vk |-> Nil,
          snark |-> [snarkVk EXCEPT !.VkAlpha1 = alphaG1.h]]
    ELSE IF betaG2.status # "ok"
    THEN [status |-> betaG2.status, vk |-> Nil,
          snark |-> [snarkVk EXCEPT !.VkAlpha1 = alphaG1.h]]
    ELSE IF gammaG2.status # "ok"
    THEN [status |-> gammaG2.status, vk |-> Nil,
          snark |-> [snarkVk EXCEPT !.VkAlpha1 = alphaG1.h]]
    ELSE IF deltaG2.status # "ok"
    THEN [status |-> deltaG2.status, vk |-> Nil,
          snark |-> [snarkVk EXCEPT !.VkAlpha1 = alphaG1.h]]
    ELSE [status |-> ic.status,
          vk |-> IF ic.status # "ok" THEN Nil
                 ELSE [curve |-> "bn254",
                       G1 |-> [Alpha |-> alphaG1.p, K |-> ic.K],
                       G2 |-> [Beta |-> betaG2.p, Gamma |-> gammaG2.p,
                               Delta |-> deltaG2.p]],
          snark |-> [snarkVk EXCEPT !.VkAlpha1 = alphaG1.h, !.IC = ic.ic]]

\* ConvertVerificationKey(snarkVk)
ConvertVerificationKey(snarkVk) ==
    ConvertVerificationKeyResult(snarkVk, stringToG1(snarkVk.VkAlpha1),
        stringToG2(snarkVk.VkBeta2), stringToG2(snarkVk.VkGamma2),
        stringToG2(snarkVk.VkDelta2),
        ConvertIC(snarkVk.IC, 1, [status |-> "ok", K |-> <<>>, ic |-> <<>>]))

\* PublicWitnessFromVector(vec): a bn254 witness holding vec as its public part.
PublicWitnessFromVector(vec) == [curve |-> "bn254", vec |-> vec]

\* curve.Pair(alpha, beta), the pairing of the curve library.  Only that the
\* product is a function of the two points is used: twelve fp coefficients,
\* indexed C0/C1, B0..B2, A0/A1.
Pair(alpha, beta) ==
    [c \in 1..2 |-> [b \in 1..3 |-> [a \in 1..2 |->
        (alpha.X * c + alpha.Y * b + beta.X.A0 * a + beta.X.A1 * (a + b)
            + beta.Y.A0 * (b + c) + beta.Y.A1 * (a + c)) % FpModulus]]]

\* ComputeAlphabeta12(alpha, beta): the 2 x 3 x 2 decimal strings of e(alpha, beta)
ComputeAlphabeta12(alpha, beta) ==
    LET gt == Pair(alpha, beta)
    IN  [c \in 1..2 |-> [b \in 1..3 |-> [a \in 1..2 |-> BigIntString(gt[c][b][a])]]]

\* The IC array of ConvertGnarkToCircom: one [X, Y, "1"] per point of vk.G1.K.
ICStrings(K) == [i \in 1..Len(K) |-> g1ToCircomString(K[i]).s]

\* The trimming rule of ConvertGnarkToCircom:
\* if nPublic == 0 && len(ic) > 1 { ic = ic[:1] }
TrimIC(ic, nPublic) ==
    IF nPublic = 0 /\ Len(ic) > 1 THEN SubSeq(ic, 1, 1) ELSE ic

\* ConvertGnarkToCircom(proof, vk, publicWitness).  The witness vector is
\* type-checked with the ok form (an error); proof and vk are type-asserted
\* without it (a panic on any other type, and on a nil vk).
ConvertGnarkToCircom(proof, vk, publicWitness) ==
    IF publicWitness.curve # "bn254"
    THEN [status |-> "error", proof |-> Nil, vk |-> Nil, pub |-> <<>>]
    ELSE IF proof.curve # "bn254" \/ vk = Nil
    THEN [status |-> "panic", proof |-> Nil, vk |-> Nil, pub |-> <<>>]
    ELSE IF vk.curve # "bn254"
    THEN [status |-> "panic", proof |-> Nil, vk |-> Nil, pub |-> <<>>]
    ELSE
    LET PublicInputs == publicWitness.vec
        nPublic == Len(PublicInputs)
    IN  [status |-> "ok",
         proof |-> [PiA |-> g1ToCircomString(proof.Ar).s,
                    PiB |-> g2ToCircomString(proof.Bs).s,
                    PiC |-> g1ToCircomString(proof.Krs).s,
                    Protocol |-> "groth16"],
         vk |-> [Protocol |-> "groth16",
                 Curve |-> "bn128",
                 NPublic |-> nPublic,
                 VkAlpha1 |-> g1ToCircomString(vk.G1.Alpha).s,
                 VkBeta2 |-> g2ToCircomString(vk.G2.Beta).s,
                 VkGamma2 |-> g2ToCircomString(vk.G2.Gamma).s,
                 VkDelta2 |-> g2ToCircomString(vk.G2.Delta).s,
                 IC |-> TrimIC(ICStrings(vk.G1.K), nPublic),
                 VkAlphabeta12 |-> ComputeAlphabeta12(vk.G1.Alpha, vk.G2.Beta)],
         pub |-> [i \in 1..nPublic |-> elementToString(PublicInputs[i])]]

(***************************************************************************)
(* package parser: the Solidity export (solidity.go)                       *)
(***************************************************************************)
\* (*Groth16CommitmentProof).FromGnarkProof(proof).  g16proof.Commitments[0]
\* is read whatever the length of Commitments.
FromGnarkProof(proof) ==
    IF proof.curve # "bn254" THEN [status |-> "error", p |-> Nil]
    ELSE IF Len(proof.Commitments) = 0 THEN [status |-> "panic", p |-> Nil]
    ELSE [status |-> "ok",
          p |-> [Proof |-> [Ar |-> <<proof.Ar.X, proof.Ar.Y>>,
                            Bs |-> << <<proof.Bs.X.A1, proof.Bs.X.A0>>,
                                      <<proof.Bs.Y.A1, proof.Bs.Y.A0>> >>,
                            Krs |-> <<proof.Krs.X, proof.Krs.Y>>],
                 Commitments |-> <<proof.Commitments[1].X, proof.Commitments[1].Y>>,
                 CommitmentPok |-> <<proof.CommitmentPok.X, proof.CommitmentPok.Y>>]]

\* One uint256 of the ABI encoding: the value big-endian in a word as wide
\* as a coordinate (32 bytes for bn254).
ABIWord(n) == [i \in 1..FieldBytes |-> (n \div Pow(256, FieldBytes - i)) % 256]

\* The uint256[8] ABIEncode builds from p.Proof.
ABIProofArrayLowFirst(p) ==
    << p.Proof.Ar[1], p.Proof.Ar[2], p.Proof.Bs[1][2], p.Proof.Bs[1][1],
       p.Proof.Bs[2][2], p.Proof.Bs[2][1], p.Proof.Krs[1], p.Proof.Krs[2] >>
ABIProofArray(p) ==
    << p.Proof.Ar[1], p.Proof.Ar[2], p.Proof.Bs[1][1], p.Proof.Bs[1][2],
       p.Proof.Bs[2][1], p.Proof.Bs[2][2], p.Proof.Krs[1], p.Proof.Krs[2] >>

\* abi.Arguments.Pack of a tuple of static arrays: its words one after the other.
RECURSIVE ABIPack(_)
ABIPack(words) ==
    IF words = <<>> THEN <<>> ELSE ABIWord(Head(words)) \o ABIPack(Tail(words))

\* (*Groth16CommitmentProof).ABIEncode(): the tuple (proof, commitments,
\* commitment_pok).
ABIEncode(p) ==
    [status |-> "ok",
     b |-> ABIPack(ABIProofArray(p) \o p.Commitments \o p.CommitmentPok)]

(***************************************************************************)
(* package parser: values for the recursive verifier (recursion.go)        *)
(***************************************************************************)
\* ConvertPublicInputs(circomPublicSignals): one field element per signal.
ConvertPublicInputs(circomPublicSignals) == ParsePublicInputs(circomPublicSignals)

\* recursion.ValueOfProof(gnarkProof): the points of the proof as circuit values.
ValueOfProof(proof) ==
    [Ar |-> proof.Ar, Krs |-> proof.Krs, Bs |-> proof.Bs,
     Commitments |-> proof.Commitments, CommitmentPok |-> proof.CommitmentPok]

\* recursion.ValueOfVerifyingKey(gnarkVk) and ValueOfVerifyingKeyFixed: e(alpha,
\* beta), one circuit point per entry of G1.K, the negated gamma and delta.
ValueOfVerifyingKey(vk) ==
    [E |-> Pair(vk.G1.Alpha, vk.G2.Beta),
     G1 |-> [K |-> vk.G1.K],
     G2 |-> [GammaNeg |-> [vk.G2.Gamma EXCEPT !.Y = E2Neg(@)],
             DeltaNeg |-> [vk.G2.Delta EXCEPT !.Y = E2Neg(@)]]]

\* The zero value of recursion.VerifyingKey: the Vk of an assignment that
\* was never given one.
ZeroVerifyingKey == [E |-> Nil, G1 |-> [K |-> <<>>], G2 |-> Nil]

\* make([]sw_bn254.G1Affine, len(K)): as many zero-valued points.
KeptK(K) == K
MakeK(K) == [i \in 1..Len(K) |-> G1Infinity]

\* createPlaceholdersForRecursionWithFixedVk(gnarkVk, numberOfPublicInputs)
createPlaceholdersForRecursionWithFixedVk(gnarkVk, numberOfPublicInputs) ==
    IF gnarkVk = Nil \/ numberOfPublicInputs < 0
    THEN [status |-> "error", v |-> Nil]
    ELSE [status |-> "ok",
          v |-> [Vk |-> ValueOfVerifyingKey(gnarkVk),
                 Witness |-> [Public |-> [i \in 1..numberOfPublicInputs |-> 0]],
                 Proof |-> ValueOfProof(GnarkProofOf(G1Infinity, G1Infinity, G2Infinity))]]

\* createPlaceholdersForRecursion(gnarkVk, numberOfPublicInputs): the same
\* with Vk.G1.K replaced by zero values.
createPlaceholdersForRecursion(gnarkVk, numberOfPublicInputs) ==
    LET placeholders ==
            createPlaceholdersForRecursionWithFixedVk(gnarkVk, numberOfPublicInputs)
    IN  IF placeholders.status # "ok" THEN placeholders
        ELSE [placeholders EXCEPT !.v.Vk.G1.K = MakeK(@)]

\* ConvertCircomToGnarkRecursion(circomProof, circomVk, circomPublicSignals,
\* fixedVk), given what ConvertPublicInputs, ConvertProof and
\* ConvertVerificationKey returned: the first failure in that order, else
\* the assignment and the placeholders.
ConvertCircomToGnarkRecursion(publicInputs, gnarkProof, gnarkVk, fixedVk) ==
    IF publicInputs.status # "ok"
    THEN [status |-> publicInputs.status, assignments |-> Nil, placeholders |-> Nil]
    ELSE IF gnarkProof.status # "ok"
    THEN [status |-> gnarkProof.status, assignments |-> Nil, placeholders |-> Nil]
    ELSE IF gnarkVk.status # "ok"
    THEN [status |-> gnarkVk.status, assignments |-> Nil, placeholders |-> Nil]
    ELSE LET placeholders ==
                 IF fixedVk
                 THEN createPlaceholdersForRecursionWithFixedVk(gnarkVk.vk, Len(publicInputs.v))
                 ELSE createPlaceholdersForRecursion(gnarkVk.vk, Len(publicInputs.v))
         IN  IF placeholders.status # "ok"
             THEN [status |-> "error", assignments |-> Nil, placeholders |-> Nil]
             ELSE [status |-> "ok",
                   assignments |->
                       [Proof |-> ValueOfProof(gnarkProof.proof),
                        PublicInputs |-> [Public |-> publicInputs.v],
                        Vk |-> IF fixedVk THEN ZeroVerifyingKey
                               ELSE ValueOfVerifyingKey(gnarkVk.vk)],
                   placeholders |-> placeholders.v]

(***************************************************************************)
(* example_native_aggregation: the hash of the public inputs (util.go)     *)
(*                                                                         *)
(* A limb is a frontend.Variable: [t |-> its Go type, neg, abs |-> its     *)
(* value when it is a number, s |-> its text when it is a string].         *)
(***************************************************************************)
\* getBigIntFromVariable(v): *big.Int, big.Int, uint64 and int carry their
\* value, a string is parsed in base 10, any other type is an error.
getBigIntFromVariable(v) ==
    IF v.t \in {"*big.Int", "int"} THEN [ok |-> TRUE, neg |-> v.neg, abs |-> v.abs]
    ELSE IF v.t = "string" THEN SetString10(v.s)
    ELSE [ok |-> FALSE, neg |-> FALSE, abs |-> 0]

\* limbValue.FillBytes(buf[:]) into var buf [fr_bls12377.Bytes]byte: the
\* absolute value big-endian, zero-extended; a panic when it does not fit.
FillBytes(x) ==
    IF Len(BigIntBytes(x.abs)) > FieldBytes THEN [status |-> "panic", b |-> <<>>]
    ELSE [status |-> "ok",
          b |-> [i \in 1..FieldBytes |-> (x.abs \div Pow(256, FieldBytes - i)) % 256]]

\* The limbs in the order of the three nested loops: witness, element, limb.
RECURSIVE LimbsOfInputs(_)
LimbsOfInputs(inputs) ==
    IF inputs = <<>> THEN <<>> ELSE Head(inputs).Limbs \o LimbsOfInputs(Tail(inputs))
RECURSIVE LimbsInOrder(_)
LimbsInOrder(publicInputs) ==
    IF publicInputs = <<>> THEN <<>>
    ELSE LimbsOfInputs(Head(publicInputs)) \o LimbsInOrder(Tail(publicInputs))

\* The loop body for each limb in turn: getBigIntFromVariable (an error
\* returns), FillBytes, h.Write(buf[:]).  written is what the hash has been
\* given so far.
RECURSIVE WriteLimbs(_, _)
WriteLimbs(limbs, written) ==
    IF limbs = <<>> THEN [status |-> "ok", written |-> written]
    ELSE LET limbValue == getBigIntFromVariable(Head(limbs))
             buf == FillBytes(limbValue)
         IN  IF ~limbValue.ok THEN [status |-> "error", written |-> written]
             ELSE IF buf.status # "ok" THEN [status |-> "panic", written |-> written]
             ELSE WriteLimbs(Tail(limbs), written \o buf.b)

\* h.Sum(nil) and SetBytes: the digest of what was written.  The hash is
\* the library's; only that it is a function of the bytes is used.
RECURSIVE MiMCSum(_, _)
MiMCSum(written, acc) ==
    IF written = <<>> THEN acc
    ELSE MiMCSum(Tail(written), (acc * 3 + Head(written) + 1) % FrModulus)

\* ComputePublicInputsHashFromBLS12377ToBW6761(publicInputs)
ComputePublicInputsHashFromBLS12377ToBW6761(publicInputs) ==
    LET w == WriteLimbs(LimbsInOrder(publicInputs), <<>>)
    IN  [status |-> w.status,
         written |-> w.written,
         publicHash |-> IF w.status = "ok" THEN MiMCSum(w.written, 0) ELSE 0]

(***************************************************************************)
(* The callers of package parser: the arguments they can pass              *)
(***************************************************************************)
\* Most entries of a verification key's IC / K, and most public inputs.
MaxIC == 3
MaxPublic == 2

\* The least value that does not fit FieldBytes bytes.
Oversize == Pow(256, FieldBytes)

\* Coordinate strings a JSON file can hold: the canonical decimals, the
\* modulus itself, a value with the top bit of its first byte set, a signed
\* value, a leading zero, the empty string, non-numeric text, a value one
\* byte too long, and the 0x form.
CoordStrings ==
    { BigIntString(v) : v \in Fp }
        \cup { BigIntString(FpModulus), BigIntString(Oversize \div 2 + 1),
               BigIntString(Oversize),
               <<"-">> \o BigIntString(2), <<"+">> \o BigIntString(2),
               <<"0">> \o BigIntString(2), <<>>, <<"x">>, <<"2", "a">>,
               <<"0", "x">> \o [i \in 1..(2 * FieldBytes - 1) |-> "0"] \o <<"2">> }

\* Arrays handed to stringToG1: of every length up to three.
G1StringInputs ==
    { <<>> } \cup { <<x>> : x \in CoordStrings }
        \cup { <<x, y>> : x, y \in CoordStrings }
        \cup { <<x, y, <<"1">> >> : x, y \in CoordStrings }

\* What snarkjs writes for a point: canonical decimals and the projective 1.
SnarkJSG1(p) == << BigIntString(p.X), BigIntString(p.Y), <<"1">> >>
SnarkJSG2(p) ==
    << << BigIntString(p.X.A0), BigIntString(p.X.A1) >>,
       << BigIntString(p.Y.A0), BigIntString(p.Y.A1) >>,
       << <<"1">>, <<"0">> >> >>

\* A coordinate as a 0x-prefixed hex string of full width, and a G2 point
\* written with such strings in snarkjs' layout.
RECURSIVE HexDigitsOf(_, _)
HexDigitsOf(v, n) ==
    IF n = 0 THEN <<>> ELSE Append(HexDigitsOf(v \div 16, n - 1), HexLower[(v % 16) + 1])
HexCoord(v) == <<"0", "x">> \o HexDigitsOf(v, 2 * FieldBytes)
SnarkJSG2Hex(p) ==
    << << HexCoord(p.X.A0), HexCoord(p.X.A1) >>,
       << HexCoord(p.Y.A0), HexCoord(p.Y.A1) >>,
       << HexCoord(1), HexCoord(0) >> >>

\* Two points of each group none of whose coordinates is 1, and the
\* generator of G1, (1, 2).
G1Generator == [X |-> 1, Y |-> 2]
G1Sample == CHOOSE p \in G1Points : p.X > 1 /\ p.Y > 1
G1Sample2 == CHOOSE p \in G1Points : p.X > 1 /\ p.Y > 1 /\ p # G1Sample
G2Plain == { p \in G2Points \ {G2Infinity} : p.X.A0 # 1 /\ p.X.A1 # 1 /\ p.Y.A0 # 1 /\ p.Y.A1 # 1 }
G2Sample == CHOOSE p \in G2Plain : TRUE
G2Sample2 == CHOOSE p \in G2Plain : p # G2Sample

\* Arrays handed to stringToG2: every point of the group as snarkjs writes
\* it, one point with each coordinate replaced by each coordinate string,
\* and the short shapes: a short outer array, a short or empty inner array.
G2Replace(h, i, j, x) == [h EXCEPT ![i] = [h[i] EXCEPT ![j] = x]]
G2Shapes ==
    LET h == SnarkJSG2(G2Sample)
    IN  { <<>>, <<h[1]>>, <<h[1], h[2]>>,
          << <<>>, h[2], h[3] >>, << <<h[1][1]>>, h[2], h[3] >>,
          << h[1], <<>>, h[3] >>, << h[1], <<h[2][1]>>, h[3] >>,
          << <<h[1][1]>>, <<h[2][1]>>, h[3] >>,
          << <<<<"x">>>>, h[2], h[3] >>,
          << h[1], h[2], <<>> >>,
          << h[1] \o <<<<"0">>>>, h[2], h[3] >> }
G2StringInputs ==
    { SnarkJSG2(p) : p \in G2Points }
        \cup { SnarkJSG2Hex(p) : p \in G2Plain }
        \cup { G2Replace(SnarkJSG2(G2Sample), i, j, x) :
                 i \in 1..2, j \in 1..2, x \in CoordStrings }
        \cup G2Shapes
\* gnark objects handed to ConvertGnarkToCircom and FromGnarkProof: a proof
\* of either curve, with or without a commitment; a verifying key whose K
\* has any length up to MaxIC, of either curve, or nil; a public witness of
\* either curve with up to MaxPublic values.
Curves == {"bn254", "bls12_377"}
GnarkProofs ==
    { [curve |-> c, Ar |-> ar, Krs |-> G1Sample2, Bs |-> G2Sample,
       Commitments |-> cm,
       CommitmentPok |-> IF cm = <<>> THEN G1Infinity ELSE G1Sample]
        : c \in Curves, ar \in {G1Generator, G1Sample},
          cm \in {<<>>, <<G1Sample2>>} }
\* Proofs of a circuit with one commitment, as the Solidity export takes them.
CommittedProofs ==
    { [curve |-> "bn254", Ar |-> ar, Krs |-> G1Sample2, Bs |-> bs,
       Commitments |-> <<cm>>, CommitmentPok |-> pok]
        : ar \in {G1Generator, G1Sample}, bs \in G2Plain,
          cm \in {G1Sample, G1Sample2}, pok \in {G1Generator, G1Sample} }
GnarkVerifyingKeys ==
    { [curve |-> c,
       G1 |-> [Alpha |-> G1Sample, K |-> [i \in 1..n |-> G1Sample2]],
       G2 |-> [Beta |-> G2Sample, Gamma |-> G2Sample2, Delta |-> G2Sample]]
        : c \in Curves, n \in 0..MaxIC } \cup {Nil}
FrSamples == {0, 1, FrModulus - 1}
PublicVectors == UNION { [1..n -> FrSamples] : n \in 0..MaxPublic }
PublicWitnesses == { [curve |-> c, vec |-> v] : c \in Curves, v \in {<<>>, <<1>>, <<0, FrModulus - 1>>} \cup {[i \in 1..MaxPublic |-> 1]} }
GnarkInputs ==
    { [proof |-> pr, vk |-> vk, w |-> w]
        : pr \in GnarkProofs, vk \in GnarkVerifyingKeys, w \in PublicWitnesses }

\* What snarkjs writes for a proof, a verification key of nPublic inputs and
\* the public signals: subgroup points in canonical decimals, nPublic + 1
\* entries of IC, vk_alphabeta_12 = e(alpha, beta).
SnarkJSProof(a, b, c) ==
    [PiA |-> SnarkJSG1(a), PiB |-> SnarkJSG2(b), PiC |-> SnarkJSG1(c),
     Protocol |-> "groth16"]
SnarkJSVk(nPublic, ic) ==
    [Protocol |-> "groth16", Curve |-> "bn128", NPublic |-> nPublic,
     VkAlpha1 |-> SnarkJSG1(G1Sample), VkBeta2 |-> SnarkJSG2(G2Sample),
     VkGamma2 |-> SnarkJSG2(G2Sample2), VkDelta2 |-> SnarkJSG2(G2Sample),
     IC |-> [i \in 1..(nPublic + 1) |-> SnarkJSG1(ic)],
     VkAlphabeta12 |-> ComputeAlphabeta12(G1Sample, G2Sample)]
CircomInputs ==
    { [proof |-> SnarkJSProof(a, G2Sample2, G1Sample),
       vk |-> SnarkJSVk(Len(v), ic),
       pub |-> [i \in 1..Len(v) |-> BigIntString(v[i])]]
        : a \in G1Points \ {G1Infinity}, ic \in {G1Sample, G1Sample2},
          v \in PublicVectors }

\* Arguments of ConvertCircomToGnarkRecursion: a proof, a key with any
\* number of IC entries, any number of public signals (also one that is
\* not a number), both modes.
RecursionInputs ==
    { [proof |-> SnarkJSProof(a, G2Sample2, G1Sample),
       vk |-> [SnarkJSVk(0, G1Sample) EXCEPT !.IC = [i \in 1..k |-> SnarkJSG1(G1Sample2)]],
       pub |-> pub, fixedVk |-> f]
        : a \in {G1Sample, G1Generator}, k \in 0..MaxIC, f \in BOOLEAN,
          pub \in { [i \in 1..Len(v) |-> BigIntString(v[i])] : v \in PublicVectors }
                    \cup { << <<"x">> >> } }

\* Public signals a JSON file can hold: canonical decimals, the modulus
\* itself, a leading zero, a signed value, the 0x form, non-numeric text.
SignalStrings ==
    { BigIntString(v) : v \in FrSamples \cup {FrModulus} }
        \cup { <<"0", "2">>, <<"-", "1">>, <<"0", "x", "0", "c">>, <<"x">> }
SignalLists == UNION { [1..n -> SignalStrings] : n \in 0..MaxPublic }

\* Limbs of an emulated element: numbers of either sign held as *big.Int
\* or int, one too wide for the buffer, decimal text, text that is not a
\* number, a value of another type.
LimbVariables ==
    { [t |-> "*big.Int", neg |-> FALSE, abs |-> n, s |-> <<>>] : n \in {0, 1, Oversize} }
        \cup { [t |-> "int", neg |-> TRUE, abs |-> 1, s |-> <<>>],
               [t |-> "string", neg |-> FALSE, abs |-> 0, s |-> <<"2">>],
               [t |-> "string", neg |-> FALSE, abs |-> 0, s |-> <<"x">>],
               [t |-> "bool", neg |-> FALSE, abs |-> 0, s |-> <<>>] }

\* The witnesses handed to the hash, in two shapes: one witness of one
\* element of two limbs, and two witnesses of one element of one limb.
HashInputs ==
    { << << [Limbs |-> <<a, b>>] >> >> : a, b \in LimbVariables }
        \cup { << << [Limbs |-> <<a>>] >>, << [Limbs |-> <<b>>] >> >> : a, b \in LimbVariables }

(***************************************************************************)
(* Calls into package parser                                               *)
(***************************************************************************)
CodecOps == {"stringToG1", "stringToG2", "g1RoundTrip", "g2RoundTrip",
             "ConvertGnarkToCircom", "FromGnarkProof", "objectRoundTrip"}

CodecTasks ==
    { [op |-> "stringToG1", arg |-> h] : h \in G1StringInputs }
        \cup { [op |-> "stringToG2", arg |-> h] : h \in G2StringInputs }
        \cup { [op |-> "g1RoundTrip", arg |-> q] : q \in G1Points }
        \cup { [op |-> "g2RoundTrip", arg |-> q] : q \in G2Points }
        \cup { [op |-> "ConvertGnarkToCircom", arg |-> g] : g \in GnarkInputs }
        \cup { [op |-> "FromGnarkProof", arg |-> pr] : pr \in GnarkProofs \cup CommittedProofs }
        \cup { [op |-> "objectRoundTrip", arg |-> c] : c \in CircomInputs }
        \cup { [op |-> "recursion", arg |-> r] : r \in RecursionInputs }
        \cup { [op |-> "signalsRoundTrip", arg |-> l] : l \in SignalLists }
        \cup { [op |-> "stringToBytes", arg |-> x] : x \in CoordStrings }
        \cup { [op |-> "publicInputsHash", arg |-> h] :
                   h \in { q \in [x : HashInputs, y : HashInputs] : Len(q.x) = Len(q.y) } }

InitCodec ==
    /\ cTask \in CodecTasks
    /\ cStep = "start"
    /\ cMid = Nil
    /\ cOut = Nil

\* stringToG1(h) on an array read from a file
CallStringToG1 ==
    /\ cTask.op = "stringToG1" /\ cStep = "start"
    /\ cOut' = stringToG1(cTask.arg)
    /\ cStep' = "done"
    /\ UNCHANGED <<cTask, cMid, notCodec>>

\* stringToBytes(s) on one coordinate of a G2 point
CallStringToBytes ==
    /\ cTask.op = "stringToBytes" /\ cStep = "start"
    /\ cOut' = stringToBytes(cTask.arg)
    /\ cStep' = "done"
    /\ UNCHANGED <<cTask, cMid, notCodec>>

\* stringToG2(h) on an array read from a file
CallStringToG2 ==
    /\ cTask.op = "stringToG2" /\ cStep = "start"
    /\ cOut' = stringToG2(cTask.arg)
    /\ cStep' = "done"
    /\ UNCHANGED <<cTask, cMid, notCodec>>

\* g1ToCircomString(p) on a point of the group
EncodeG1 ==
    /\ cTask.op = "g1RoundTrip" /\ cStep = "start"
    /\ cMid' = g1ToCircomString(cTask.arg)
    /\ cStep' = "mid"
    /\ UNCHANGED <<cTask, cOut, notCodec>>

\* stringToG1 on what g1ToCircomString returned
DecodeG1 ==
    /\ cTask.op = "g1RoundTrip" /\ cStep = "mid"
    /\ cOut' = stringToG1(cMid.s)
    /\ cStep' = "done"
    /\ UNCHANGED <<cTask, cMid, notCodec>>

\* g2ToCircomString(p) on a point of the group
EncodeG2 ==
    /\ cTask.op = "g2RoundTrip" /\ cStep = "start"
    /\ cMid' = g2ToCircomString(cTask.arg)
    /\ cStep' = "mid"
    /\ UNCHANGED <<cTask, cOut, notCodec>>

\* stringToG2 on what g2ToCircomString returned
DecodeG2 ==
    /\ cTask.op = "g2RoundTrip" /\ cStep = "mid"
    /\ cOut' = stringToG2(cMid.s)
    /\ cStep' = "done"
    /\ UNCHANGED <<cTask, cMid, notCodec>>

\* ConvertGnarkToCircom(proof, vk, publicWitness) on gnark objects
CallConvertGnarkToCircom ==
    /\ cTask.op = "ConvertGnarkToCircom" /\ cStep = "start"
    /\ cOut' = ConvertGnarkToCircom(cTask.arg.proof, cTask.arg.vk, cTask.arg.w)
    /\ cStep' = "done"
    /\ UNCHANGED <<cTask, cMid, notCodec>>

\* FromGnarkProof(proof) on a gnark proof
CallFromGnarkProof ==
    /\ cTask.op = "FromGnarkProof" /\ cStep = "start"
    /\ cOut' = FromGnarkProof(cTask.arg)
    /\ cStep' = "done"
    /\ UNCHANGED <<cTask, cMid, notCodec>>

\* ABIEncode() on the proof FromGnarkProof has filled in
CallABIEncode ==
    /\ cTask.op = "FromGnarkProof" /\ cStep = "done" /\ cOut.status = "ok"
    /\ cMid' = ABIEncode(cOut.p)
    /\ cStep' = "encoded"
    /\ UNCHANGED <<cTask, cOut, notCodec>>

\* ComputePublicInputsHashFromBLS12377ToBW6761 on one input, on a second
\* input of the same shape, and on the first once more
CallComputePublicInputsHash ==
    /\ cTask.op = "publicInputsHash" /\ cStep = "start"
    /\ cOut' = [first |-> ComputePublicInputsHashFromBLS12377ToBW6761(cTask.arg.x),
                second |-> ComputePublicInputsHashFromBLS12377ToBW6761(cTask.arg.y),
                again |-> ComputePublicInputsHashFromBLS12377ToBW6761(cTask.arg.x)]
    /\ cStep' = "done"
    /\ UNCHANGED <<cTask, cMid, notCodec>>

\* ConvertCircomToGnarkRecursion on the three objects unmarshalled from
\* snarkjs' files
CallConvertCircomToGnarkRecursion ==
    /\ cTask.op = "recursion" /\ cStep = "start"
    /\ cOut' = ConvertCircomToGnarkRecursion(ConvertPublicInputs(cTask.arg.pub),
                    ConvertProof(cTask.arg.proof),
                    ConvertVerificationKey(cTask.arg.vk), cTask.arg.fixedVk)
    /\ cStep' = "done"
    /\ UNCHANGED <<cTask, cMid, notCodec>>

\* ParsePublicInputs on the public signals of a file
ParseSignals ==
    /\ cTask.op = "signalsRoundTrip" /\ cStep = "start"
    /\ cMid' = ParsePublicInputs(cTask.arg)
    /\ cStep' = "mid"
    /\ UNCHANGED <<cTask, cOut, notCodec>>

\* The field elements back to strings: PublicWitnessFromVector, then
\* ConvertGnarkToCircom with a proof and a key of as many inputs.
EmitSignals ==
    /\ cTask.op = "signalsRoundTrip" /\ cStep = "mid"
    /\ cOut' = IF cMid.status # "ok"
               THEN [status |-> "error", proof |-> Nil, vk |-> Nil, pub |-> <<>>]
               ELSE ConvertGnarkToCircom(GnarkProofOf(G1Sample, G1Sample2, G2Sample),
                        [curve |-> "bn254",
                         G1 |-> [Alpha |-> G1Sample,
                                 K |-> [i \in 1..(Len(cMid.v) + 1) |-> G1Sample2]],
                         G2 |-> [Beta |-> G2Sample, Gamma |-> G2Sample2,
                                 Delta |-> G2Sample]],
                        PublicWitnessFromVector(cMid.v))
    /\ cStep' = "done"
    /\ UNCHANGED <<cTask, cMid, notCodec>>

\* The way in of the round trip: ConvertProof, ConvertVerificationKey and
\* ParsePublicInputs on the three objects unmarshalled from snarkjs' files.
ConvertToGnark ==
    /\ cTask.op = "objectRoundTrip" /\ cStep = "start"
    /\ cMid' = [proof |-> ConvertProof(cTask.arg.proof),
                vk |-> ConvertVerificationKey(cTask.arg.vk),
                inputs |-> ParsePublicInputs(cTask.arg.pub)]
    /\ cStep' = "mid"
    /\ UNCHANGED <<cTask, cOut, notCodec>>

\* The way back: PublicWitnessFromVector, then ConvertGnarkToCircom.  An
\* error on the way in ends the run (t.Fatalf).
ConvertBackToCircom ==
    /\ cTask.op = "objectRoundTrip" /\ cStep = "mid"
    /\ IF cMid.proof.status = "ok" /\ cMid.vk.status = "ok" /\ cMid.inputs.status = "ok"
       THEN cOut' = ConvertGnarkToCircom(cMid.proof.proof, cMid.vk.vk,
                                         PublicWitnessFromVector(cMid.inputs.v))
       ELSE cOut' = [status |-> "aborted"]
    /\ cStep' = "done"
    /\ UNCHANGED <<cTask, cMid, notCodec>>

NextCodec ==
    \/ CallStringToG1
    \/ CallStringToBytes
    \/ CallStringToG2
    \/ EncodeG1
    \/ DecodeG1
    \/ EncodeG2
    \/ DecodeG2
    \/ CallConvertGnarkToCircom
    \/ CallFromGnarkProof
    \/ ConvertToGnark
    \/ ConvertBackToCircom
    \/ CallABIEncode
    \/ CallComputePublicInputsHash
    \/ CallConvertCircomToGnarkRecursion
    \/ ParseSignals
    \/ EmitSignals

(***************************************************************************)
(* Properties of package parser's conversions                              *)
(***************************************************************************)
IsHexForm(x) == Len(x) > 1 /\ SubSeq(x, 1, 2) = <<"0", "x">>

\* A coordinate that is not a number, is negative, or needs more than
\* FieldBytes bytes.
Malformed(x) ==
    /\ ~IsHexForm(x)
    /\ LET bi == SetString10(x)
       IN  ~bi.ok \/ bi.neg \/ Len(BigIntBytes(bi.abs)) > FieldBytes

\* An outer array shorter than [x, y, z], or a G2 point one of whose two
\* coordinate arrays is shorter than [a0, a1].
ShortG1(h) == Len(h) < 3
ShortG2(h) == Len(h) < 3 \/ \E i \in 1..2 : Len(h[i]) < 2
RightShapeG1(h) == Len(h) = 3
RightShapeG2(h) == Len(h) = 3 /\ \A i \in 1..2 : Len(h[i]) = 2

\* C1: a valid snarkjs triple converted with ConvertProof,
\* ConvertVerificationKey and ParsePublicInputs and back with
\* ConvertGnarkToCircom comes out equal to the original, field by field:
\* proof, verification key (nPublic, IC, vk_alphabeta_12 included) and
\* public signals.
C1_ObjectRoundTrip ==
    (cTask.op = "objectRoundTrip" /\ cStep = "done")
        => /\ cMid.proof.status = "ok"
           /\ cMid.vk.status = "ok"
           /\ cMid.inputs.status = "ok"
           /\ cOut.status = "ok"
           /\ cOut.proof = cTask.arg.proof
           /\ cOut.vk = cTask.arg.vk
           /\ cOut.pub = cTask.arg.pub

\* C2: for every point p of G1, stringToG1(g1ToCircomString(p)) returns p
\* and no error; likewise stringToG2(g2ToCircomString(p)) for G2.
C2_PointRoundTrip ==
    (cTask.op \in {"g1RoundTrip", "g2RoundTrip"} /\ cStep = "done")
        => (cOut.status = "ok" /\ cOut.p = cTask.arg)

\* C3: stringToG1 and stringToG2 return no point and an error, without
\* crashing, for every input whose outer array, or one of whose coordinate
\* arrays of a G2 point, is shorter than required.
C3_ShortArrayRejected ==
    /\ (cTask.op = "stringToG1" /\ cStep = "done" /\ ShortG1(cTask.arg))
        => (cOut.status = "error" /\ cOut.p = Nil)
    /\ (cTask.op = "stringToG2" /\ cStep = "done" /\ ShortG2(cTask.arg))
        => (cOut.status = "error" /\ cOut.p = Nil)

\* C4: for a coordinate string that is not a non-negative integer fitting
\* the field width (not a number, negative, too long), stringToG1 and
\* stringToG2 return an error: the string is neither converted to some
\* other value nor the cause of a crash.
C4_MalformedRejected ==
    /\ (cTask.op = "stringToG1" /\ cStep = "done" /\ RightShapeG1(cTask.arg)
            /\ \E i \in 1..2 : Malformed(cTask.arg[i]))
        => cOut.status = "error"
    /\ (cTask.op = "stringToG2" /\ cStep = "done" /\ RightShapeG2(cTask.arg)
            /\ \E i \in 1..2 : \E j \in 1..2 : Malformed(cTask.arg[i][j]))
        => cOut.status = "error"

\* C9: the verification key ConvertGnarkToCircom returns has
\* len(IC) = NPublic + 1.
C9_ICLength ==
    (cTask.op = "ConvertGnarkToCircom" /\ cStep = "done" /\ cOut.status = "ok")
        => Len(cOut.vk.IC) = cOut.vk.NPublic + 1

\* C10: on a bn254 proof without commitments FromGnarkProof succeeds, and
\* so does ConvertGnarkToCircom when the key and the witness are bn254 too.
C10_NoCommitments ==
    /\ (cTask.op = "FromGnarkProof" /\ cStep = "done"
            /\ cTask.arg.curve = "bn254" /\ cTask.arg.Commitments = <<>>)
        => cOut.status = "ok"
    /\ (cTask.op = "ConvertGnarkToCircom" /\ cStep = "done"
            /\ cTask.arg.proof.curve = "bn254" /\ cTask.arg.proof.Commitments = <<>>
            /\ cTask.arg.vk # Nil /\ cTask.arg.w.curve = "bn254")
        => (cTask.arg.vk.curve = "bn254" => cOut.status = "ok")
(***************************************************************************)
(* example_native_aggregation: the artifact cache (compile.go)             *)
(***************************************************************************)
\* const numProofs
numProofs == 10

\* The circuit kinds and the file suffix LoadCircuit and CompileCircuit
\* derive from them.  AggregateProofCircuitBN254Type is the kind stage 3
\* passes; it is handled like the two kinds of the switch.
CircuitKinds == {"verify", "aggregate", "aggregate_bn254"}
ErrCircuitDoesNotExist == "circuit does not exist"

\* A file of the working directory is absent, partly written or complete.
FileStates == {"absent", "partial", "complete"}
NoFiles == [circuit |-> "absent", pk |-> "absent", vk |-> "absent"]
AllFiles == [circuit |-> "complete", pk |-> "complete", vk |-> "complete"]

\* os.Stat(name): nil when the file exists and can be reached, ENOENT when
\* it is absent, EACCES when the directory cannot be searched.
StatNotFound(access, state) == "ENOENT"
Stat(access, state) ==
    IF access = "denied" THEN "EACCES"
    ELSE IF state = "absent" THEN "ENOENT"
    ELSE "nil"

\* LoadCircuit(curve, t) on the files of kind t: os.Stat of the circuit
\* file, then open and read the circuit, the proving key, the verifying key.
LoadCircuitSameShape(access, f) ==
    IF Stat(access, f.circuit) # "nil" \/ pOrigin.verify.circuit.shape # pShape
    THEN [err |-> ErrCircuitDoesNotExist]
    ELSE [err |-> "nil"]
LoadCircuit(access, f) ==
    IF Stat(access, f.circuit) # "nil" THEN [err |-> ErrCircuitDoesNotExist]
    ELSE IF f.circuit = "partial" THEN [err |-> "error reading circuit from circuit.r1cs"]
    ELSE IF f.pk = "absent" THEN [err |-> "error opening pk.bin"]
    ELSE IF f.pk = "partial" THEN [err |-> "error reading proving key from pk.bin"]
    ELSE IF f.vk = "absent" THEN [err |-> "error opening vk.bin"]
    ELSE IF f.vk = "partial" THEN [err |-> "error reading verifying key from vk.bin"]
    ELSE [err |-> "nil"]

\* The steps of CompileCircuit that can fail, in the order it takes them.
CompileSteps == <<"compile", "setup", "createPk", "writePk", "createVk",
                  "writeVk", "createCircuit", "writeCircuit">>
CompileFailures(access) ==
    IF access = "denied" THEN {"compile", "setup", "createPk"}
    ELSE {CompileSteps[i] : i \in 1..Len(CompileSteps)} \cup {"none"}

\* The position of a step in CompileSteps; past the end for "none".
StepIndex(step) ==
    IF step = "none" THEN Len(CompileSteps) + 1
    ELSE CHOOSE i \in 1..Len(CompileSteps) : CompileSteps[i] = step

\* What os.Create and WriteTo leave of one file when CompileCircuit fails at
\* step failAt: created at step c, written at step c + 1.
Written(before, c, failAt) ==
    IF StepIndex(failAt) <= c THEN before
    ELSE IF StepIndex(failAt) = c + 1 THEN "partial"
    ELSE "complete"

\* CompileCircuit(placeholder, field, t) failing at failAt ("none": not
\* failing): pk, then vk, then the circuit file.
CompileCircuit(f, failAt) ==
    [err |-> IF failAt = "none" THEN "nil" ELSE failAt,
     files |-> [pk |-> Written(f.pk, 3, failAt),
                vk |-> Written(f.vk, 5, failAt),
                circuit |-> Written(f.circuit, 7, failAt)]]
(***************************************************************************)
(* The artifact cache shared by two processes: CompileCircuit and          *)
(* LoadCircuit step by step, each file operation a system call of its own  *)
(***************************************************************************)
\* The file each creating or writing step of CompileCircuit works on.
FileOfStep(i) == IF i \in {3, 4} THEN "pk" ELSE IF i \in {5, 6} THEN "vk" ELSE "circuit"

\* os.Create(name): O_RDWR|O_CREATE|O_TRUNC on the final name.  The file
\* exists and is empty from here on, whatever it held before.
OsCreate(files, name) == [files EXCEPT ![name] = "partial"]

\* The order in which LoadCircuit opens the files.
LoadOrder == <<"circuit", "pk", "vk">>

InitCache ==
    /\ kFiles \in [{"circuit", "pk", "vk"} -> {"absent", "complete"}]
    /\ kWriter = 1
    /\ kReader = 0
    /\ kSeen = [f \in {"circuit", "pk", "vk"} |-> "unopened"]

\* CompileCircuit takes its next step, CompileSteps[kWriter]: it fails and
\* returns the error (kWriter = -1), or goes on; past the last step it has
\* returned (kWriter = Len(CompileSteps) + 1).
WriterStep ==
    /\ kWriter \in 1..Len(CompileSteps)
    /\ \E ok \in BOOLEAN :
          /\ kWriter' = IF ok THEN kWriter + 1 ELSE -1
          /\ kFiles' =
                IF kWriter \in {3, 5, 7}
                THEN (IF ok THEN OsCreate(kFiles, FileOfStep(kWriter)) ELSE kFiles)
                ELSE IF kWriter \in {4, 6, 8}
                THEN (IF ok THEN [kFiles EXCEPT ![FileOfStep(kWriter)] = "complete"]
                      ELSE kFiles)
                ELSE kFiles
    /\ UNCHANGED <<kReader, kSeen>>
    /\ UNCHANGED notCache

\* LoadCircuit: os.Stat of the circuit file; any error returns
\* ErrCircuitDoesNotExist (kReader = -1).
ReaderStat ==
    /\ kReader = 0
    /\ kReader' = IF Stat("ok", kFiles.circuit) # "nil" THEN -1 ELSE 1
    /\ UNCHANGED <<kFiles, kWriter, kSeen>>
    /\ UNCHANGED notCache

\* LoadCircuit: os.Open of the next file and ReadFrom it.  kSeen keeps what
\* the file held when it was opened; an absent or unfinished file makes
\* LoadCircuit return an error.
ReaderOpen ==
    /\ kReader \in 1..Len(LoadOrder)
    /\ kSeen' = [kSeen EXCEPT ![LoadOrder[kReader]] = kFiles[LoadOrder[kReader]]]
    /\ kReader' = IF kFiles[LoadOrder[kReader]] = "complete" THEN kReader + 1 ELSE -1
    /\ UNCHANGED <<kFiles, kWriter>>
    /\ UNCHANGED notCache

NextCache ==
    \/ WriterStep
    \/ ReaderStat
    \/ ReaderOpen

(***************************************************************************)
(* example_native_aggregation: main and its three stages                   *)
(***************************************************************************)
KindOfStage(stage) ==
    IF stage = 1 THEN "verify" ELSE IF stage = 2 THEN "aggregate" ELSE "aggregate_bn254"

\* What a working directory can hold for one kind when a run starts.
DiskSituations ==
    { NoFiles, AllFiles,
      [AllFiles EXCEPT !.circuit = "partial"],
      [AllFiles EXCEPT !.pk = "absent"],
      [AllFiles EXCEPT !.vk = "partial"] }

\* The runs of the pipeline followed, one after the other.
MaxRuns == 2

\* A call a stage made: the stage, the call's name, the curve or scalar
\* field it was given, the (outer, inner) fields of its recursion options,
\* and its error.
NoOptions == <<"none", "none">>
Call(name, curve, opts, err) ==
    [stage |-> pStage, call |-> name, curve |-> curve,
     outer |-> opts[1], inner |-> opts[2], err |-> err]

\* The field each stage passes to test.IsSolved, the curve it passes to
\* LoadCircuit, the fields it passes to CompileCircuit and to
\* frontend.NewWitness.
ByStage(stage, first, second, third) ==
    IF stage = 1 THEN first ELSE IF stage = 2 THEN second ELSE third
SolveField(stage) == ByStage(stage, "BLS12_377", "BW6_761", "BN254")
LoadCurve(stage) == ByStage(stage, "BLS12_377", "BW6_761", "BN254")
CompileField(stage) == ByStage(stage, "BLS12_377", "BW6_761", "BN254")
WitnessField(stage) == ByStage(stage, "BLS12_377", "BW6_761", "BN254")

\* The options each stage passes to groth16.Prove and to groth16.Verify:
\* stdgroth16.GetNativeProverOptions(outer, inner) and
\* GetNativeVerifierOptions(outer, inner) in stages 1 and 2, none in stage 3.
ProverOptionsInnerFirst(stage) ==
    ByStage(stage, <<"BLS12_377", "BW6_761">>, <<"BW6_761", "BN254">>, NoOptions)
ProverOptions(stage) ==
    ByStage(stage, <<"BW6_761", "BLS12_377">>, <<"BN254", "BW6_761">>, NoOptions)
VerifierOptions(stage) ==
    ByStage(stage, <<"BW6_761", "BLS12_377">>, <<"BN254", "BW6_761">>, NoOptions)

\* The shape of a circuit: the number of public inputs of the Circom proof
\* the run was given (-circom-data), which fixes the placeholders.  The
\* runs are given one of two sets of Circom data, of one and of two public
\* inputs.
Shapes == {1, 2}

\* A file's origin: the call to groth16.Setup (numbered from 1) whose
\* CompileCircuit wrote it and the shape of the circuit compiled then.
\* Files found when the first run starts come from a compilation before it.
Origin(key, shape) == [key |-> key, shape |-> shape]
FromEarlier == [circuit |-> Origin(0, 1), pk |-> Origin(0, 1), vk |-> Origin(0, 1)]

\* The origin of a file after CompileCircuit failing at failAt: the file
\* created at step c is this compilation's from os.Create on.
WrittenByNone(before, c, failAt, this) == before
WrittenBy(before, c, failAt, this) ==
    IF StepIndex(failAt) <= c THEN before ELSE this

InitPipeline ==
    /\ pRuntest \in BOOLEAN
    /\ pInputOk \in BOOLEAN
    /\ pAccess \in {"ok", "denied"}
    /\ pFiles \in [CircuitKinds -> DiskSituations]
    /\ pStage = 1
    /\ pPc = "begin"
    /\ pI = 0
    /\ pProofs = <<>>
    /\ pVk = Nil
    /\ pCcs = Nil
    /\ pCur = Nil
    /\ pLoad = Nil
    /\ pAggIn = Nil
    /\ pAgg = Nil
    /\ pEnd = "running"
    /\ pRun = 1
    /\ pSetups = 0
    /\ pOrigin = [k \in CircuitKinds |-> FromEarlier]
    /\ pShape \in Shapes
    /\ pCalls = <<>>

Running == pEnd = "running"

\* log.Fatalf, a panic, or main returning
StopNot(how) ==
    /\ pEnd' = pEnd
    /\ pPc' = pPc
Stop(how) ==
    /\ pEnd' = how
    /\ pPc' = "end"

\* What main does with the four values a stage-1 call returns: append
\* &innerProof{p, w}, keep vk and ccs of iteration 0, and after iteration
\* numProofs - 1 call AggregateProofs(proofs, vk, ccs).
Stage1Returns(proof, vki, wit, ccsi) ==
    /\ pProofs' = Append(pProofs, [p |-> proof, w |-> wit])
    /\ pVk' = IF pI = 0 THEN vki ELSE pVk
    /\ pCcs' = IF pI = 0 THEN ccsi ELSE pCcs
    /\ pI' = pI + 1
    /\ pCur' = Nil
    /\ IF pI + 1 < numProofs
       THEN pStage' = 1 /\ pPc' = "begin"
       ELSE pStage' = 2 /\ pPc' = "enter"
    /\ pEnd' = pEnd

\* circom2gnarkRecursiveBls12377 up to its branch on runtest:
\* parseCircomProof (fatal on invalid data); with -test, test.IsSolved and
\* return nil, nil, nil, nil; otherwise on to LoadCircuit.
Stage1Begin ==
    /\ Running /\ pStage = 1 /\ pPc = "begin" /\ pI < numProofs
    /\ IF ~pInputOk
       THEN /\ Stop("fatal")
            /\ UNCHANGED <<pStage, pI, pProofs, pVk, pCcs, pCur>>
       ELSE IF pRuntest
       THEN \/ Stage1Returns(Nil, Nil, Nil, Nil)
            \/ /\ Stop("panic")
               /\ UNCHANGED <<pStage, pI, pProofs, pVk, pCcs, pCur>>
       ELSE /\ pPc' = "load"
            /\ UNCHANGED <<pStage, pI, pProofs, pVk, pCcs, pCur, pEnd>>
    /\ pCalls' = IF ~pInputOk \/ ~pRuntest THEN <<>>
                 ELSE << Call("IsSolved", SolveField(1), NoOptions,
                              IF pEnd' = "panic" THEN "error" ELSE "nil") >>
    /\ UNCHANGED <<pRuntest, pInputOk, pAccess, pFiles, pLoad, pAggIn, pAgg>>
    /\ UNCHANGED <<pRun, pSetups, pOrigin, pShape>>
    /\ UNCHANGED notPipeline

\* AggregateProofs up to LoadCircuit: the count check (fatal), the
\* placeholders (which dereference ccsInner), the assignments, test.IsSolved.
Stage2Enter ==
    /\ Running /\ pStage = 2 /\ pPc = "enter"
    /\ pAggIn' = [proofs |-> pProofs, vk |-> pVk, ccs |-> pCcs]
    /\ IF Len(pProofs) # numProofs THEN Stop("fatal") /\ pCalls' = <<>>
       ELSE IF pCcs = Nil THEN Stop("panic") /\ pCalls' = <<>>
       ELSE \/ /\ pPc' = "load" /\ pEnd' = pEnd
               /\ pCalls' = << Call("IsSolved", SolveField(2), NoOptions, "nil") >>
            \/ /\ Stop("fatal")
               /\ pCalls' \in { <<>>, << Call("IsSolved", SolveField(2), NoOptions, "error") >> }
    /\ UNCHANGED <<pRuntest, pInputOk, pAccess, pFiles, pStage, pI, pProofs, pVk,
                   pCcs, pCur, pLoad, pAgg>>
    /\ UNCHANGED <<pRun, pSetups, pOrigin, pShape>>
    /\ UNCHANGED notPipeline

\* aggregateProofToBn254 up to LoadCircuit: placeholder, assignment,
\* test.IsSolved (fatal).
Stage3Enter ==
    /\ Running /\ pStage = 3 /\ pPc = "enter"
    /\ \/ /\ pPc' = "load" /\ pEnd' = pEnd
          /\ pCalls' = << Call("IsSolved", SolveField(3), NoOptions, "nil") >>
       \/ /\ Stop("fatal")
          /\ pCalls' \in { <<>>, << Call("IsSolved", SolveField(3), NoOptions, "error") >> }
    /\ UNCHANGED <<pRuntest, pInputOk, pAccess, pFiles, pStage, pI, pProofs, pVk,
                   pCcs, pCur, pLoad, pAggIn, pAgg>>
    /\ UNCHANGED <<pRun, pSetups, pOrigin, pShape>>
    /\ UNCHANGED notPipeline

\* LoadCircuit and the stage's branch on its error: errors.Is(err,
\* ErrCircuitDoesNotExist) leads to CompileCircuit, any other error ends the
\* stage.
StageLoad ==
    /\ Running /\ pPc = "load"
    /\ LET kind == KindOfStage(pStage)
           r == LoadCircuit(pAccess, pFiles[kind])
       IN  /\ pLoad' = [kind |-> kind, err |-> r.err,
                        stat |-> Stat(pAccess, pFiles[kind].circuit)]
           /\ IF r.err = "nil"
              THEN /\ pCur' = [kind |-> kind, from |-> "load", proof |-> Nil,
                                ccs |-> pOrigin[kind].circuit, pk |-> pOrigin[kind].pk,
                                vk |-> pOrigin[kind].vk]
                   /\ pPc' = "prove" /\ pEnd' = pEnd
              ELSE IF r.err = ErrCircuitDoesNotExist
              THEN pPc' = "compile" /\ pEnd' = pEnd /\ pCur' = pCur
              ELSE Stop("fatal") /\ pCur' = pCur
           /\ pCalls' = Append(pCalls, Call("LoadCircuit", LoadCurve(pStage), NoOptions, r.err))
    /\ UNCHANGED <<pRuntest, pInputOk, pAccess, pFiles, pStage, pI, pProofs, pVk,
                   pCcs, pAggIn, pAgg>>
    /\ UNCHANGED <<pRun, pSetups, pOrigin, pShape>>
    /\ UNCHANGED notPipeline

\* CompileCircuit and the stage's check of its error
StageCompile ==
    /\ Running /\ pPc = "compile"
    /\ \E failAt \in CompileFailures(pAccess) :
         LET kind == KindOfStage(pStage)
             r == CompileCircuit(pFiles[kind], failAt)
             this == Origin(pSetups + 1, pShape)
         IN  /\ pFiles' = [pFiles EXCEPT ![kind] = r.files]
             /\ pSetups' = IF StepIndex(failAt) > StepIndex("setup")
                           THEN pSetups + 1 ELSE pSetups
             /\ pOrigin' = [pOrigin EXCEPT ![kind] =
                              [pk |-> WrittenBy(pOrigin[kind].pk, 3, failAt, this),
                               vk |-> WrittenBy(pOrigin[kind].vk, 5, failAt, this),
                               circuit |-> WrittenBy(pOrigin[kind].circuit, 7, failAt, this)]]
             /\ IF r.err = "nil"
                THEN /\ pCur' = [kind |-> kind, from |-> "compile", proof |-> Nil,
                                 ccs |-> this, pk |-> this, vk |-> this]
                     /\ pPc' = "prove" /\ pEnd' = pEnd
                ELSE Stop("fatal") /\ pCur' = pCur
             /\ pCalls' = Append(pCalls, Call("CompileCircuit", CompileField(pStage),
                                              NoOptions, r.err))
    /\ UNCHANGED <<pRuntest, pInputOk, pAccess, pStage, pI, pProofs, pVk, pCcs,
                   pLoad, pAggIn, pAgg>>
    /\ UNCHANGED <<pRun, pShape>>
    /\ UNCHANGED notPipeline

\* frontend.NewWitness, in stage 1 witnessFull.Public, and groth16.Prove: an
\* error ends the stage.  The proof is made with the proving key the stage
\* holds.
StageProve ==
    /\ Running /\ pPc = "prove"
    /\ LET newWitness(err) == Call("NewWitness", WitnessField(pStage), NoOptions, err)
           prove(err) == Call("Prove", "none", ProverOptions(pStage), err)
       IN  \/ /\ pCur' = [pCur EXCEPT !.proof = [stage |-> pStage, verified |-> FALSE,
                                                  from |-> pCur.from,
                                                  pk |-> pCur.pk, vk |-> Nil]]
              /\ pPc' = "verify" /\ pEnd' = pEnd
              /\ pCalls' = pCalls \o << newWitness("nil"), prove("nil") >>
           \/ /\ Stop("fatal") /\ pCur' = pCur
              /\ pCalls' \in { Append(pCalls, newWitness("error")),
                                pCalls \o << newWitness("nil"), prove("error") >> }
                                \cup (IF pStage = 1 THEN { Append(pCalls, newWitness("nil")) }
                                      ELSE {})
    /\ UNCHANGED <<pRuntest, pInputOk, pAccess, pFiles, pStage, pI, pProofs, pVk,
                   pCcs, pLoad, pAggIn, pAgg>>
    /\ UNCHANGED <<pRun, pSetups, pOrigin, pShape>>
    /\ UNCHANGED notPipeline

\* groth16.Verify of stage 1 and the return to main's loop
Stage1Verify ==
    /\ Running /\ pStage = 1 /\ pPc = "verify"
    /\ \/ /\ Stage1Returns([pCur.proof EXCEPT !.verified = TRUE, !.vk = pCur.vk],
                           [kind |-> pCur.kind, from |-> pCur.from, origin |-> pCur.vk],
                           [stage |-> 1],
                           [kind |-> pCur.kind, from |-> pCur.from, origin |-> pCur.ccs])
          /\ pCalls' = Append(pCalls, Call("Verify", "none", VerifierOptions(1), "nil"))
       \/ /\ Stop("fatal")
          /\ pCalls' = Append(pCalls, Call("Verify", "none", VerifierOptions(1), "error"))
          /\ UNCHANGED <<pStage, pI, pProofs, pVk, pCcs, pCur>>
    /\ UNCHANGED <<pRuntest, pInputOk, pAccess, pFiles, pLoad, pAggIn, pAgg>>
    /\ UNCHANGED <<pRun, pSetups, pOrigin, pShape>>
    /\ UNCHANGED notPipeline

\* witnessFull.Public and groth16.Verify of stage 2; on success main passes the aggregate proof to
\* aggregateProofToBn254.
Stage2Verify ==
    /\ Running /\ pStage = 2 /\ pPc = "verify"
    /\ \/ /\ pAgg' = [p |-> [pCur.proof EXCEPT !.verified = TRUE, !.vk = pCur.vk],
                      w |-> [stage |-> 2],
                      vk |-> [kind |-> pCur.kind, from |-> pCur.from, origin |-> pCur.vk]]
          /\ pStage' = 3 /\ pPc' = "enter" /\ pCur' = Nil /\ pEnd' = pEnd
          /\ pCalls' = Append(pCalls, Call("Verify", "none", VerifierOptions(2), "nil"))
       \/ /\ Stop("fatal")
          /\ pCalls' \in { pCalls,
                            Append(pCalls, Call("Verify", "none", VerifierOptions(2), "error")) }
          /\ UNCHANGED <<pStage, pCur, pAgg>>
    /\ UNCHANGED <<pRuntest, pInputOk, pAccess, pFiles, pI, pProofs, pVk, pCcs,
                   pLoad, pAggIn>>
    /\ UNCHANGED <<pRun, pSetups, pOrigin, pShape>>
    /\ UNCHANGED notPipeline

\* witnessFull.Public and groth16.Verify of stage 3; on success main returns.
Stage3Verify ==
    /\ Running /\ pStage = 3 /\ pPc = "verify"
    /\ \/ /\ pCur' = [pCur EXCEPT !.proof = [pCur.proof EXCEPT !.verified = TRUE,
                                                              !.vk = pCur.vk]]
          /\ Stop("done")
          /\ pCalls' = Append(pCalls, Call("Verify", "none", VerifierOptions(3), "nil"))
       \/ /\ Stop("fatal") /\ pCur' = pCur
          /\ pCalls' \in { pCalls,
                            Append(pCalls, Call("Verify", "none", VerifierOptions(3), "error")) }
    /\ UNCHANGED <<pRuntest, pInputOk, pAccess, pFiles, pStage, pI, pProofs, pVk,
                   pCcs, pLoad, pAggIn, pAgg>>
    /\ UNCHANGED <<pRun, pSetups, pOrigin, pShape>>
    /\ UNCHANGED notPipeline

\* The program is started again in the same working directory, with any
\* flags and any Circom data: what the earlier runs left on disk is what
\* this run finds.
RunAgain ==
    /\ pEnd \in {"done", "fatal", "panic"} /\ pRun < MaxRuns
    /\ pRun' = pRun + 1
    /\ pRuntest' \in BOOLEAN
    /\ pInputOk' \in BOOLEAN
    /\ pAccess' \in {"ok", "denied"}
    /\ pShape' \in Shapes
    /\ pStage' = 1 /\ pPc' = "begin" /\ pI' = 0 /\ pProofs' = <<>>
    /\ pVk' = Nil /\ pCcs' = Nil /\ pCur' = Nil /\ pLoad' = Nil
    /\ pAggIn' = Nil /\ pAgg' = Nil /\ pEnd' = "running" /\ pCalls' = <<>>
    /\ UNCHANGED <<pFiles, pSetups, pOrigin>>
    /\ UNCHANGED notPipeline

\* The steps of one run of the program.
NextRun ==
    \/ Stage1Begin
    \/ StageLoad
    \/ StageCompile
    \/ StageProve
    \/ Stage1Verify
    \/ Stage2Enter
    \/ Stage2Verify
    \/ Stage3Enter
    \/ Stage3Verify

NextPipeline ==
    \/ RunAgain
    \/ NextRun
(***************************************************************************)
(* example: the single-proof program (example/main.go)                     *)
(***************************************************************************)
\* LoadCircuit() of the example: circuit.r1cs, pk.bin, vk.bin, each opened
\* and read, with no os.Stat of its own.
ExampleLoadCircuit(access, f) ==
    IF access = "denied" \/ f.circuit = "absent" THEN [err |-> "error opening circuit.r1cs"]
    ELSE IF f.circuit = "partial" THEN [err |-> "error reading circuit from circuit.r1cs"]
    ELSE IF f.pk = "absent" THEN [err |-> "error opening pk.bin"]
    ELSE IF f.pk = "partial" THEN [err |-> "error reading proving key from pk.bin"]
    ELSE IF f.vk = "absent" THEN [err |-> "error opening vk.bin"]
    ELSE IF f.vk = "partial" THEN [err |-> "error reading verifying key from vk.bin"]
    ELSE [err |-> "nil"]

\* CompileCircuit(placeholderCircuit) of the example: the same steps in the
\* same order, on pk.bin, vk.bin and circuit.r1cs.
ExampleCompileCircuit(f, failAt) == CompileCircuit(f, failAt)

InitExample ==
    /\ eRuntest \in BOOLEAN
    /\ eInputOk \in BOOLEAN
    /\ eAccess \in {"ok", "denied"}
    /\ eFiles \in DiskSituations \cup {[NoFiles EXCEPT !.pk = c] : c \in {"partial", "complete"}}
    /\ ePc = "begin"
    /\ eProof = Nil
    /\ eOut = Nil
    /\ eEnd = "running"
    /\ eRun = 1
    /\ eSetups = 0
    /\ eOrigin = [circuit |-> 0, pk |-> 0, vk |-> 0]

\* main up to its branch on runtest: read and unmarshal the three files,
\* ConvertCircomToGnark, VerifyProof, the recursion placeholders and data
\* (all fatal on error); with -test, test.IsSolved and return.
ExBegin ==
    /\ eEnd = "running" /\ ePc = "begin"
    /\ IF ~eInputOk THEN ePc' = "end" /\ eEnd' = "fatal"
       ELSE IF eRuntest
       THEN \/ ePc' = "end" /\ eEnd' = "done"
            \/ ePc' = "end" /\ eEnd' = "panic"
       ELSE ePc' = "cache" /\ eEnd' = eEnd
    /\ UNCHANGED <<eRuntest, eInputOk, eAccess, eFiles, eProof, eOut>>
    /\ UNCHANGED <<eRun, eSetups, eOrigin>>
    /\ UNCHANGED notExample

\* os.Stat("pk.bin") returned nil: LoadCircuit(); main returns on its error.
ExLoad ==
    /\ eEnd = "running" /\ ePc = "cache"
    /\ Stat(eAccess, eFiles.pk) = "nil"
    /\ IF ExampleLoadCircuit(eAccess, eFiles).err = "nil"
       THEN ePc' = "prove" /\ eEnd' = eEnd
       ELSE ePc' = "end" /\ eEnd' = "returned"
    /\ UNCHANGED <<eRuntest, eInputOk, eAccess, eFiles, eProof, eOut>>
    /\ UNCHANGED <<eRun, eSetups, eOrigin>>
    /\ UNCHANGED notExample

\* os.Stat("pk.bin") returned an error: CompileCircuit(placeholderCircuit);
\* main returns on its error.
ExCompile ==
    /\ eEnd = "running" /\ ePc = "cache"
    /\ Stat(eAccess, eFiles.pk) # "nil"
    /\ \E failAt \in CompileFailures(eAccess) :
         LET r == ExampleCompileCircuit(eFiles, failAt)
         IN  /\ eFiles' = r.files
             /\ eSetups' = IF StepIndex(failAt) > StepIndex("setup")
                           THEN eSetups + 1 ELSE eSetups
             /\ eOrigin' = [pk |-> WrittenBy(eOrigin.pk, 3, failAt, eSetups + 1),
                            vk |-> WrittenBy(eOrigin.vk, 5, failAt, eSetups + 1),
                            circuit |-> WrittenBy(eOrigin.circuit, 7, failAt, eSetups + 1)]
             /\ IF r.err = "nil"
                THEN ePc' = "prove" /\ eEnd' = eEnd
                ELSE ePc' = "end" /\ eEnd' = "returned"
    /\ UNCHANGED <<eRuntest, eInputOk, eAccess, eProof, eOut, eRun>>
    /\ UNCHANGED notExample

\* frontend.NewWitness, Public and groth16.Prove: main returns on an error.
ExProve ==
    /\ eEnd = "running" /\ ePc = "prove"
    /\ \/ eProof' = [verified |-> FALSE] /\ ePc' = "verify" /\ eEnd' = eEnd
       \/ eProof' = eProof /\ ePc' = "end" /\ eEnd' = "returned"
    /\ UNCHANGED <<eRuntest, eInputOk, eAccess, eFiles, eOut>>
    /\ UNCHANGED <<eRun, eSetups, eOrigin>>
    /\ UNCHANGED notExample

\* groth16.Verify(proof, vk, publicWitness): its error is printed
\* ("Verification failed") and main goes on.
ExVerify ==
    /\ eEnd = "running" /\ ePc = "verify"
    /\ \E ok \in BOOLEAN : eProof' = [eProof EXCEPT !.verified = ok]
    /\ ePc' = "export"
    /\ UNCHANGED <<eRuntest, eInputOk, eAccess, eFiles, eOut, eEnd>>
    /\ UNCHANGED <<eRun, eSetups, eOrigin>>
    /\ UNCHANGED notExample

\* ConvertGnarkToCircom, MkdirTemp, and the three JSON files written (fatal
\* on an error).
ExExport ==
    /\ eEnd = "running" /\ ePc = "export"
    /\ \/ eOut' = [proof |-> eProof] /\ eEnd' = "done"
       \/ eOut' = eOut /\ eEnd' = "fatal"
    /\ ePc' = "end"
    /\ UNCHANGED <<eRuntest, eInputOk, eAccess, eFiles, eProof>>
    /\ UNCHANGED <<eRun, eSetups, eOrigin>>
    /\ UNCHANGED notExample

\* The example is started again in the same working directory.
ExRunAgain ==
    /\ eEnd \in {"done", "returned", "fatal", "panic"} /\ eRun < MaxRuns
    /\ eRun' = eRun + 1
    /\ eRuntest' \in BOOLEAN
    /\ eInputOk' \in BOOLEAN
    /\ eAccess' \in {"ok", "denied"}
    /\ ePc' = "begin" /\ eProof' = Nil /\ eOut' = Nil /\ eEnd' = "running"
    /\ UNCHANGED <<eFiles, eSetups, eOrigin>>
    /\ UNCHANGED notExample

NextExample ==
    \/ ExRunAgain
    \/ ExBegin
    \/ ExLoad
    \/ ExCompile
    \/ ExProve
    \/ ExVerify
    \/ ExExport

(***************************************************************************)
(* AggregateProofCircuit (circuits.go)                                     *)
(***************************************************************************)
\* The circuit's one verifying key, and the statements an inner proof can
\* be for.
SharedVk == "vk"
Statements == {"s", "t"}

\* An entry of AggregateProofCircuit.Proofs: a proof and its public inputs.
BatchProofData ==
    { [Proof |-> [vk |-> SharedVk, statement |-> s], PublicInputs |-> "s"] : s \in Statements }

\* verifier.AssertProof(vk, proof, witness): the constraint that the proof
\* verifies under vk for these public inputs.
AssertProof(vk, proof, witness) == proof.vk = vk /\ proof.statement = witness

\* for i := 0; i < numProofs; i++
DefineLoopShort == numProofs - 1
DefineLoop == numProofs

InitCircuit ==
    /\ aProofs \in [1..numProofs -> BatchProofData]
    /\ aAsserted = {}
    /\ aPc = "define"
    /\ aSolved = Nil

\* (*AggregateProofCircuit).Define: one AssertProof per entry of Proofs
Define ==
    /\ aPc = "define"
    /\ aAsserted' = 1..DefineLoop
    /\ aPc' = "solve"
    /\ UNCHANGED <<aProofs, aSolved>>
    /\ UNCHANGED notCircuit

\* test.IsSolved / the prover's solver on the assignment: every emitted
\* constraint has to hold.
IsSolved ==
    /\ aPc = "solve"
    /\ aSolved' = (\A i \in aAsserted :
                     AssertProof(SharedVk, aProofs[i].Proof, aProofs[i].PublicInputs))
    /\ aPc' = "done"
    /\ UNCHANGED <<aProofs, aAsserted>>
    /\ UNCHANGED notCircuit

NextCircuit ==
    \/ Define
    \/ IsSolved

(***************************************************************************)
(* AggregateProofs up to test.IsSolved, called with any slice of proofs    *)
(***************************************************************************)
\* The longest slice of proofs handed to AggregateProofs here.
MaxSupplied == numProofs + 1

\* &innerProof{p, w}: produced by a stage-1 run (non-nil values), or holding
\* nil and nil.
InnerProof(present) == [p |-> [nil |-> ~present], w |-> [nil |-> ~present]]

\* The slices handed to AggregateProofs: any length, at most one entry
\* without a proof.
SuppliedProofs ==
    { [i \in 1..n |-> InnerProof(i # bad)] :
        n \in 0..MaxSupplied, bad \in 0..MaxSupplied }

\* if len(proofs) != numProofs { log.Fatalf(...) }
CountCheckLoose(n) == n > numProofs
CountCheckFails(n) == n # numProofs

InitAgg ==
    /\ gProofs \in SuppliedProofs
    /\ gPc = "check"
    /\ gI = 0
    /\ gBuilt = [placeholder |-> FALSE, assignment |-> <<>>]

\* AggregateProofs: the count check, then createAggregationPlaceholderData
\* (numProofs placeholders from ccs and vk, an error when the key cannot be
\* converted).
AggCountCheck ==
    /\ gPc = "check"
    /\ IF CountCheckFails(Len(gProofs))
       THEN gPc' = "fatal" /\ gBuilt' = gBuilt
       ELSE \/ gPc' = "assign" /\ gBuilt' = [gBuilt EXCEPT !.placeholder = TRUE]
            \/ gPc' = "error" /\ gBuilt' = gBuilt
    /\ UNCHANGED <<gProofs, gI>>
    /\ UNCHANGED notAgg

\* createAggregationCircuitData: iteration gI of for i := 0; i < numProofs;
\* i++ reads proofs[i] (a panic past the end of the slice), converts its
\* witness and proof (a nil witness is dereferenced), stores the entry.
AggAssign ==
    /\ gPc = "assign"
    /\ IF gI >= numProofs
       THEN gPc' = "solve" /\ UNCHANGED <<gI, gBuilt>>
       ELSE IF gI + 1 > Len(gProofs)
       THEN gPc' = "panic: index out of range" /\ UNCHANGED <<gI, gBuilt>>
       ELSE IF gProofs[gI + 1].w = Nil
       THEN gPc' = "panic: nil dereference" /\ UNCHANGED <<gI, gBuilt>>
       ELSE /\ gPc' = "assign"
            /\ gI' = gI + 1
            /\ gBuilt' = [gBuilt EXCEPT !.assignment = Append(@, gProofs[gI + 1])]
    /\ UNCHANGED gProofs
    /\ UNCHANGED notAgg

NextAgg ==
    \/ AggCountCheck
    \/ AggAssign

(***************************************************************************)
(* The specifications: one subsystem runs, the others stay idle            *)
(***************************************************************************)
IdleCodec == cTask = Nil /\ cStep = "idle" /\ cMid = Nil /\ cOut = Nil
IdlePipeline ==
    /\ pRuntest = FALSE /\ pInputOk = FALSE /\ pAccess = "ok"
    /\ pFiles = [k \in CircuitKinds |-> NoFiles]
    /\ pStage = 0 /\ pPc = "idle" /\ pI = 0 /\ pProofs = <<>>
    /\ pVk = Nil /\ pCcs = Nil /\ pCur = Nil /\ pLoad = Nil /\ pAggIn = Nil
    /\ pAgg = Nil /\ pEnd = "idle"
    /\ pRun = 0 /\ pSetups = 0 /\ pOrigin = Nil /\ pShape = 0 /\ pCalls = <<>>
IdleExample ==
    /\ eRuntest = FALSE /\ eInputOk = FALSE /\ eAccess = "ok" /\ eFiles = NoFiles
    /\ ePc = "idle" /\ eProof = Nil /\ eOut = Nil /\ eEnd = "idle"
    /\ eRun = 0 /\ eSetups = 0 /\ eOrigin = Nil
IdleCircuit == aProofs = <<>> /\ aAsserted = {} /\ aPc = "idle" /\ aSolved = Nil
IdleCache == kFiles = NoFiles /\ kWriter = 0 /\ kReader = -1 /\ kSeen = Nil
IdleAgg == gProofs = <<>> /\ gPc = "idle" /\ gI = 0 /\ gBuilt = Nil

CodecRuns == InitCodec /\ IdlePipeline /\ IdleExample /\ IdleCircuit /\ IdleCache /\ IdleAgg
PipelineRuns == IdleCodec /\ InitPipeline /\ IdleExample /\ IdleCircuit /\ IdleCache /\ IdleAgg
ExampleRuns == IdleCodec /\ IdlePipeline /\ InitExample /\ IdleCircuit /\ IdleCache /\ IdleAgg
CircuitRuns == IdleCodec /\ IdlePipeline /\ IdleExample /\ InitCircuit /\ IdleCache /\ IdleAgg
CacheRuns == IdleCodec /\ IdlePipeline /\ IdleExample /\ IdleCircuit /\ InitCache /\ IdleAgg
AggRuns == IdleCodec /\ IdlePipeline /\ IdleExample /\ IdleCircuit /\ IdleCache /\ InitAgg

SpecCodec == CodecRuns /\ [][NextCodec]_vars
SpecPipeline == PipelineRuns /\ [][NextPipeline]_vars
SpecExample == ExampleRuns /\ [][NextExample]_vars
SpecCircuit == CircuitRuns /\ [][NextCircuit]_vars
SpecCache == CacheRuns /\ [][NextCache]_vars
SpecAgg == AggRuns /\ [][NextAgg]_vars

\* One run of the pipeline when every call it makes returns: a run that
\* can take a step takes one.
SpecPipelineLive ==
    PipelineRuns /\ [][NextRun]_vars /\ WF_vars(NextRun)
(***************************************************************************)
(* Properties of the programs                                              *)
(***************************************************************************)
\* C5: LoadCircuit returns ErrCircuitDoesNotExist only when the artifact is
\* absent (os.Stat: ENOENT); after any other failure of the existence check
\* or of reading the files the stage does not go on to CompileCircuit.
C5_NotFoundOnlyWhenAbsent ==
    pLoad # Nil
        => /\ (pLoad.err = ErrCircuitDoesNotExist => pLoad.stat = "ENOENT")
           /\ (pPc = "compile" => pLoad.stat = "ENOENT")

\* C6: whatever the flags, AggregateProofs is invoked with numProofs
\* entries each holding a proof that stage 1 produced and verified and its
\* witness, and with the verifying key and the constraint system of stage 1.
C6_AggregateAfterAllProofs ==
    pAggIn # Nil
        => /\ Len(pAggIn.proofs) = numProofs
           /\ \A i \in 1..Len(pAggIn.proofs) :
                /\ pAggIn.proofs[i].p # Nil
                /\ pAggIn.proofs[i].p.verified
                /\ pAggIn.proofs[i].w # Nil
           /\ pAggIn.vk # Nil
           /\ pAggIn.ccs # Nil

\* C7: the single-proof example exports a proof to Circom JSON only if
\* groth16.Verify succeeded on it.
C7_ExportOnlyVerified ==
    eOut # Nil => eOut.proof.verified

\* The entries of the assignment that do not verify under the shared key.
InvalidPairs ==
    { i \in 1..Len(aProofs) :
        ~AssertProof(SharedVk, aProofs[i].Proof, aProofs[i].PublicInputs) }

\* C8: AggregateProofCircuit is satisfied if and only if every one of its
\* numProofs (proof, public inputs) pairs is valid under the shared key.
C8_SatisfiedIffAllValid ==
    aPc = "done" => (aSolved <=> InvalidPairs = {})

\* C8, the case of one pair replaced by a proof for another statement: the
\* circuit is not satisfied.
C8_OneInvalidPairFails ==
    aPc = "done" /\ Cardinality(InvalidPairs) = 1 /\ aSolved = FALSE

\* C11: while CompileCircuit runs in one process, a LoadCircuit running in
\* another never opens an unfinished artifact: each file it opens was
\* absent or complete at that moment.
C11_NoPartialRead ==
    kSeen # Nil => \A f \in DOMAIN kSeen : kSeen[f] # "partial"

\* C12: AggregateProofs stops with the count error whenever it is given
\* other than numProofs proofs, before it builds a placeholder or an
\* assignment; createAggregationCircuitData runs only on exactly numProofs
\* proofs and never reads past the end of the slice.
C12_CountChecked ==
    gPc \notin {"idle", "check"} =>
        /\ Len(gProofs) # numProofs =>
              gPc = "fatal" /\ ~gBuilt.placeholder /\ gBuilt.assignment = <<>>
        /\ gPc \in {"assign", "solve"} => Len(gProofs) = numProofs
        /\ gPc # "panic: index out of range"

\* C12 happens: a short slice has been refused, nothing built.
C12_ShortSliceRefused ==
    /\ gPc = "fatal"
    /\ Len(gProofs) = numProofs - 1
    /\ gBuilt = [placeholder |-> FALSE, assignment |-> <<>>]

\* The call of ConvertCircomToGnarkRecursion has returned without error.
RecursionAccepted ==
    cStep = "done" /\ cTask.op = "recursion" /\ cOut.status = "ok"

\* C13: placeholders and assignment returned by ConvertCircomToGnarkRecursion
\* have equal shapes: both witnesses have one entry per public signal; with
\* a dynamic key both keys have len(IC) entries of K and the placeholder's
\* are zero; with a fixed key the assignment carries no key.
C13_EqualShapes ==
    RecursionAccepted =>
        /\ Len(cOut.placeholders.Witness.Public) = Len(cTask.arg.pub)
        /\ Len(cOut.assignments.PublicInputs.Public) = Len(cTask.arg.pub)
        /\ ~cTask.arg.fixedVk =>
              /\ Len(cOut.placeholders.Vk.G1.K) = Len(cTask.arg.vk.IC)
              /\ Len(cOut.assignments.Vk.G1.K) = Len(cTask.arg.vk.IC)
              /\ \A i \in 1..Len(cOut.placeholders.Vk.G1.K) :
                    cOut.placeholders.Vk.G1.K[i] = G1Infinity
        /\ cTask.arg.fixedVk => cOut.assignments.Vk = ZeroVerifyingKey

\* C13 happens: a dynamic-key call returned a key of MaxIC entries and
\* MaxPublic public inputs.
C13_DynamicAccepted ==
    /\ RecursionAccepted
    /\ ~cTask.arg.fixedVk
    /\ Len(cOut.assignments.Vk.G1.K) = MaxIC
    /\ Len(cOut.assignments.PublicInputs.Public) = MaxPublic

\* C14: a call of ConvertCircomToGnarkRecursion whose number of public
\* signals differs from len(IC) - 1 returns an error.
C14_ShapeMismatchRejected ==
    (cStep = "done" /\ cTask.op = "recursion"
        /\ Len(cTask.arg.pub) # Len(cTask.arg.vk.IC) - 1)
        => cOut.status = "error"

\* C15: every list of public signals ParsePublicInputs accepts comes back
\* from ConvertGnarkToCircom with the same length and the same string at
\* every position.
C15_SignalsRoundTrip ==
    (cStep = "done" /\ cTask.op = "signalsRoundTrip" /\ cMid.status = "ok")
        => (cOut.status = "ok" /\ cOut.pub = cTask.arg)

\* C16: stringToG1 decodes a point given as exactly two coordinate strings
\* to the same point as the three-element form [x, y, "1"].
C16_TwoElementForm ==
    (cStep = "done" /\ cTask.op = "stringToG1" /\ Len(cTask.arg) = 2
        /\ stringToG1(Append(cTask.arg, <<"1">>)).status = "ok")
        => /\ cOut.status = "ok"
           /\ cOut.p = stringToG1(Append(cTask.arg, <<"1">>)).p

\* The value the decimal branch reads from one coordinate string.
DecimalCoord(x) == BytesValue(stringToBytes(x).b)

\* stringToG2 has decoded a well-shaped array in its decimal branch, from
\* the uncompressed layout.
G2DecimalDecoded ==
    /\ cStep = "done" /\ cTask.op = "stringToG2" /\ cOut.status = "ok"
    /\ RightShapeG2(cTask.arg) /\ ~IsHexForm(cTask.arg[1][1])
    /\ MaskOf(stringToBytes(cTask.arg[1][2]).b[1]) = mUncompressed

\* C17 as stated: the decimal branch of stringToG2 reads its four strings
\* h[0][1], h[0][0], h[1][1], h[1][0] as Y.A1, Y.A0, X.A1, X.A0.
C17_DecimalOrderYFirst ==
    G2DecimalDecoded =>
        cOut.p = [Y |-> [A1 |-> DecimalCoord(cTask.arg[1][2]),
                         A0 |-> DecimalCoord(cTask.arg[1][1])],
                  X |-> [A1 |-> DecimalCoord(cTask.arg[2][2]),
                         A0 |-> DecimalCoord(cTask.arg[2][1])]]

\* C17 amended: the decimal branch of stringToG2 reads its four strings
\* h[0][1], h[0][0], h[1][1], h[1][0] as X.A1, X.A0, Y.A1, Y.A0; with
\* that order it decodes [[X.A0, X.A1], [Y.A0, Y.A1], ["1", "0"]], the
\* array g2ToCircomString writes for a point (none of whose coordinates is 1).
C17_DecimalOrderXFirst ==
    /\ G2DecimalDecoded =>
          cOut.p = [X |-> [A1 |-> DecimalCoord(cTask.arg[1][2]),
                           A0 |-> DecimalCoord(cTask.arg[1][1])],
                    Y |-> [A1 |-> DecimalCoord(cTask.arg[2][2]),
                           A0 |-> DecimalCoord(cTask.arg[2][1])]]
    /\ (cStep = "done" /\ cTask.op = "stringToG2"
            /\ \E q \in G2Plain : cTask.arg = g2ToCircomString(q).s)
          => G2DecimalDecoded

\* C17 happens: a point whose X and Y differ has been decoded from decimals.
C17_DecimalPointDecoded ==
    /\ G2DecimalDecoded
    /\ cTask.arg = SnarkJSG2(G2Sample)
    /\ cOut.p = G2Sample
    /\ G2Sample.X # G2Sample.Y

\* C18: a G2 point supplied to stringToG2 as 0x-prefixed hex strings decodes
\* to the same native point as the same point supplied as decimal strings.
C18_HexEqualsDecimal ==
    (cStep = "done" /\ cTask.op = "stringToG2") =>
        \A q \in G2Plain :
            cTask.arg = SnarkJSG2Hex(q)
                => /\ cOut.status = stringToG2(SnarkJSG2(q)).status
                   /\ cOut.p = stringToG2(SnarkJSG2(q)).p

\* The k-th uint256 of the bytes ABIEncode returned.
EncodedWord(k) ==
    BytesValue(SubSeq(cMid.b, (k - 1) * FieldBytes + 1, k * FieldBytes))

\* C19: ABIEncode returns the twelve words of one tuple: Ar.X, Ar.Y,
\* Bs.X.A1, Bs.X.A0, Bs.Y.A1, Bs.Y.A0, Krs.X, Krs.Y of the gnark proof
\* given to FromGnarkProof, then X and Y of its first commitment, then X
\* and Y of its proof of knowledge.
C19_ABITuple ==
    (cStep = "encoded" /\ cTask.op = "FromGnarkProof") =>
        LET g == cTask.arg
            expected == << g.Ar.X, g.Ar.Y, g.Bs.X.A1, g.Bs.X.A0, g.Bs.Y.A1,
                           g.Bs.Y.A0, g.Krs.X, g.Krs.Y,
                           g.Commitments[1].X, g.Commitments[1].Y,
                           g.CommitmentPok.X, g.CommitmentPok.Y >>
        IN  /\ cMid.status = "ok"
            /\ Len(cMid.b) = 12 * FieldBytes
            /\ \A k \in 1..12 : EncodedWord(k) = expected[k]

\* C19 happens: a proof with a commitment, whose Bs has different
\* sub-coordinates, has been encoded.
C19_ProofEncoded ==
    /\ cStep = "encoded" /\ cTask.op = "FromGnarkProof"
    /\ cTask.arg.Bs.X.A0 # cTask.arg.Bs.X.A1
    /\ cTask.arg.Ar # cTask.arg.Krs
    /\ Len(cMid.b) = 12 * FieldBytes

\* The number a limb stands for: its sign and magnitude.
LimbNumber(v) ==
    LET x == getBigIntFromVariable(v) IN IF x.neg THEN 0 - x.abs ELSE x.abs

\* Every limb of the input is a number.
AllLimbsNumbers(publicInputs) ==
    \A i \in 1..Len(LimbsInOrder(publicInputs)) :
        getBigIntFromVariable(LimbsInOrder(publicInputs)[i]).ok

\* C20: the digest is a function of the limbs (a second call on the same
\* witnesses returns the same); every limb is written to the hash as one
\* block of fixed width, in witness, element, limb order; two inputs of
\* the same shape that differ in a limb give different byte streams.
C20_StreamDeterminesLimbs ==
    (cStep = "done" /\ cTask.op = "publicInputsHash") =>
        LET x == LimbsInOrder(cTask.arg.x)
            y == LimbsInOrder(cTask.arg.y)
        IN  /\ cOut.again = cOut.first
            /\ AllLimbsNumbers(cTask.arg.x) =>
                  /\ cOut.first.status = "ok"
                  /\ Len(cOut.first.written) = Len(x) * FieldBytes
            /\ (AllLimbsNumbers(cTask.arg.x) /\ AllLimbsNumbers(cTask.arg.y)
                    /\ \E i \in 1..Len(x) : LimbNumber(x[i]) # LimbNumber(y[i]))
                  => cOut.first.written # cOut.second.written

(***************************************************************************)
(* Properties of the aggregation pipeline over runs                        *)
(***************************************************************************)
\* The places in the stage's calls where it called name.
CallsOf(name) == { i \in 1..Len(pCalls) : pCalls[i].call = name }

C22_OneKeyForStage1 ==
    (pAggIn # Nil /\ pAggIn.vk # Nil /\ pAggIn.vk.from = "compile") =>
        /\ Len(pAggIn.proofs) = numProofs
        /\ \A i \in 1..Len(pAggIn.proofs) :
              /\ pAggIn.proofs[i].p.from = (IF i = 1 THEN "compile" ELSE "load")
              /\ pAggIn.proofs[i].p.pk = pAggIn.vk.origin
              /\ pAggIn.proofs[i].p.vk = pAggIn.vk.origin

\* The first run started on an empty cache and reached AggregateProofs.
C22_AggregatedAfterCompile ==
    /\ pRun = 1 /\ pAggIn # Nil /\ pAggIn.vk # Nil
    /\ pAggIn.vk.from = "compile" /\ pAggIn.vk.origin.key = 1

\* C23: in every stage of a run without -test, groth16.Prove is called
\* only after test.IsSolved accepted the assignment in that stage.
C23_SolvedBeforeProve ==
    \A i \in CallsOf("Prove") :
        \E j \in 1..(i - 1) : pCalls[j].call = "IsSolved" /\ pCalls[j].err = "nil"

\* A call that failed, other than LoadCircuit finding no circuit.
Failed(c) ==
    c.err # "nil" /\ ~(c.call = "LoadCircuit" /\ c.err = ErrCircuitDoesNotExist)

CurveCalls == {"IsSolved", "LoadCircuit", "CompileCircuit", "NewWitness"}

\* C25: within a stage, test.IsSolved, LoadCircuit, CompileCircuit and
\* NewWitness are given the same curve; Prove and Verify are given options
\* for (outer, inner) with inner the field of this stage's circuit and
\* outer the field of the next stage's circuit; stage 3 passes no options.
C25_CurvesAgree ==
    \A i \in 1..Len(pCalls) :
        /\ pCalls[i].call \in CurveCalls =>
              \A j \in 1..Len(pCalls) :
                  pCalls[j].call \in CurveCalls => pCalls[j].curve = pCalls[i].curve
        /\ pCalls[i].call \in {"Prove", "Verify"} =>
              IF pCalls[i].stage = 3
              THEN <<pCalls[i].outer, pCalls[i].inner>> = NoOptions
              ELSE /\ pCalls[i].inner = CompileField(pCalls[i].stage)
                   /\ pCalls[i].outer = CompileField(pCalls[i].stage + 1)
                   /\ \A j \in 1..Len(pCalls) :
                         pCalls[j].call \in CurveCalls
                             => pCalls[j].curve = pCalls[i].inner

\* Stage 2 has proved and verified.
C25_Stage2Verified ==
    \E i \in CallsOf("Verify") :
        pCalls[i].stage = 2 /\ pCalls[i].err = "nil" /\ CallsOf("Prove") # {}

\* C27: LoadCircuit on a complete bundle returns what is stored, whatever
\* the shape of the circuit the caller holds now, and the stage goes on to
\* prove without compiling.
C27_LoadIgnoresShape ==
    [][ (Running /\ pPc = "load" /\ pAccess = "ok"
             /\ pFiles[KindOfStage(pStage)] = AllFiles)
          => /\ pPc' = "prove"
             /\ pCur'.from = "load"
             /\ pCur'.ccs = pOrigin[KindOfStage(pStage)].circuit
             /\ pCur'.pk = pOrigin[KindOfStage(pStage)].pk
             /\ pCur'.vk = pOrigin[KindOfStage(pStage)].vk
             /\ pFiles' = pFiles ]_vars

\* A stage loaded a bundle stored for another shape than the run's.
C27_LoadedOtherShape ==
    pCur # Nil /\ pCur.from = "load" /\ pCur.ccs.shape # pShape

\* C30: after CompileCircuit returned an error, at whatever step,
\* LoadCircuit for that kind returns ErrCircuitDoesNotExist.
C30_FailedCompileRetried ==
    (Len(pCalls) > 0 /\ pCalls[Len(pCalls)].call = "CompileCircuit"
         /\ pCalls[Len(pCalls)].err # "nil")
        => LoadCircuit("ok", pFiles[KindOfStage(pCalls[Len(pCalls)].stage)]).err
               = ErrCircuitDoesNotExist

(***************************************************************************)
(* Further properties of package parser's decoding                         *)
(***************************************************************************)
\* A coordinate written with decimal digits only.
DecimalDigits(x) == Len(x) > 0 /\ \A i \in 1..Len(x) : IsDigit(x[i])

\* C26: in the decimal branch a coordinate "1" is converted as "0" and
\* every other decimal string to its own value, left-padded with zero
\* bytes to the field width; stringToG1 converts its two coordinates as
\* stringToBytes does.
C26_SentinelAndPadding ==
    /\ (cTask.op = "stringToBytes" /\ cStep = "done" /\ DecimalDigits(cTask.arg))
          => /\ cOut.status = "ok"
             /\ Len(cOut.b) = FieldBytes
             /\ BytesValue(cOut.b) =
                    (IF cTask.arg = <<"1">> THEN 0 ELSE DecValue(cTask.arg))
    /\ (cTask.op = "stringToG1" /\ cStep = "done" /\ Len(cTask.arg) > 2
            /\ DecimalDigits(cTask.arg[1]) /\ DecimalDigits(cTask.arg[2]))
          => /\ cOut.status # "panic"
             /\ cOut.p = G1Unmarshal(stringToBytes(cTask.arg[1]).b
                                        \o stringToBytes(cTask.arg[2]).b).p

\* C28: after stringToG1 returns, with or without an error, the strings of
\* the array it was given are what they were before the call.
C28_InputUnchanged ==
    (cTask.op = "stringToG1" /\ cStep = "done") => cOut.h = cTask.arg

(***************************************************************************)
(* Properties of the single-proof example over runs                        *)
(***************************************************************************)
\* C29: whenever a run of the example takes the load branch on a pk.bin
\* that a compilation of an earlier run wrote, vk.bin and circuit.r1cs of
\* that same compilation exist and the three files are complete.
C29_LoadBranchFindsBundle ==
    (eEnd = "running" /\ ePc = "cache" /\ Stat(eAccess, eFiles.pk) = "nil"
         /\ eOrigin.pk > 0)
        => /\ eFiles = AllFiles
           /\ eOrigin.vk = eOrigin.pk
           /\ eOrigin.circuit = eOrigin.pk
====
